---- MODULE Spec2Model ----
(***************************************************************************)
(* perfana-cli: the 'run start' command (cmd/start.go as concatenated in   *)
(* src/cmd/init.go, lines 547-724), the Perfana client it drives           *)
(* (src/perfana_client/perfana_client.go, lines 1-288) and the duration    *)
(* parser (src/util/iso_duration_parser.go).                               *)
(*                                                                         *)
(* The process has two flows of control: the main flow (the cobra Run      *)
(* function) and the keep-alive goroutine it spawns. The environment is    *)
(* the clock (time.After / time.NewTicker), the operator's interrupt       *)
(* signal, and the remote service answering the HTTP calls.                *)
(* Strings that the code takes apart are sequences of one-character        *)
(* strings; the others are TLA+ strings.                                   *)
(***************************************************************************)
EXTENDS Integers, Sequences, FiniteSets, TLC

VARIABLES
    config,                  \* perfana_client.Configuration read from perfana.yaml
    rampupTime,              \* --rampupTime flag
    constantLoadTime,        \* --constantLoadTime flag
    rampupTimeMinutes,       \* init.go:605
    constantLoadTimeMinutes, \* init.go:610
    testRunID,               \* init.go:627
    pcMain,                  \* position of the main flow in startCmd.Run
    pcKA,                    \* position of the keep-alive goroutine (init.go:665-680)
    now,                     \* 10-second periods elapsed since the timers were created
    callAged,                \* the flows whose call in flight has seen the clock advance
    timeoutFired,            \* a value is waiting in the testTimeout channel
    tickPending,             \* a value is waiting in keepAliveTicker.C (buffer of 1)
    tickerStopped,           \* keepAliveTicker.Stop() was called
    stopClosed,              \* close(stopChan) was executed
    sigRegistered,           \* signal.Notify(signalChan, ...) was executed
    signalChan,              \* number of signals waiting in signalChan (buffer of 1)
    interrupts,              \* interrupts delivered to the process so far
    intrAt,                  \* history: where the main flow was at each interrupt
    kaLastErr,               \* the err of the goroutine's latest TestEvent
    parseArg,                \* the argument of a call of util.ParseISODuration
    parsed,                  \* what that call returned
    additionalData,          \* the map built at init.go:636-645
    clientCall,              \* an operation of perfana_client called on its own
    clientReturn,            \* what that operation returned
    initRun,                 \* initCmd.Run: its flags, locals, position and output
    dotPerfana,              \* the directory ~/.perfana-cli and its perfana.yaml
    flagArg,                 \* a --variable or --deeplink flag: the entries given
    flagParsed,              \* what init.go:576-603 makes of these entries
    log                      \* history: calls sent, the main flow's calls returned, close

vars == <<config, rampupTime, constantLoadTime, rampupTimeMinutes,
          constantLoadTimeMinutes, testRunID, pcMain, pcKA, now, callAged,
          timeoutFired, tickPending, tickerStopped, stopClosed, sigRegistered,
          signalChan, interrupts, intrAt, kaLastErr, log, parseArg, parsed,
          additionalData, clientCall, clientReturn, initRun, dotPerfana,
          flagArg, flagParsed>>

\* the variables of the init command and of the flag parsing on its own
OtherCmdVars == <<initRun, dotPerfana, flagArg, flagParsed>>

(***************************************************************************)
(* Bounds of the model.                                                    *)
(***************************************************************************)
\* 10-second periods the clock may advance after the timers are created
MaxNow == 13
\* interrupt signals (SIGINT / SIGTERM) the operator may send in one run
MaxInterrupts == 2

(***************************************************************************)
(* Program constants.                                                      *)
(***************************************************************************)
\* keep-alive interval, in seconds (time.NewTicker(30 * time.Second))
KeepAliveSeconds == 30
\* per-call timeout, in seconds (http.Client.Timeout and context.WithTimeout)
CallTimeoutSeconds == 10
\* capacity of signalChan (make(chan os.Signal, 1))
SignalChanCap == 1
(***************************************************************************)
(* util.ParseISODuration                                                   *)
(***************************************************************************)
IsDigit(c) == c \in {"0", "1", "2", "3", "4", "5", "6", "7", "8", "9"}

DigitVal(c) ==
    CASE c = "0" -> 0 [] c = "1" -> 1 [] c = "2" -> 2 [] c = "3" -> 3
      [] c = "4" -> 4 [] c = "5" -> 5 [] c = "6" -> 6 [] c = "7" -> 7
      [] c = "8" -> 8 [] c = "9" -> 9

\* the first index >= k of s that holds no digit (Len(s)+1 when there is none)
RECURSIVE DigitRunEnd(_, _)
DigitRunEnd(s, k) ==
    IF k > Len(s) \/ ~IsDigit(s[k]) THEN k ELSE DigitRunEnd(s, k + 1)

\* the regular expression PT(\d+)m matches s starting at index i
MatchAt(s, i) ==
    /\ i + 3 <= Len(s)
    /\ s[i] = "P"
    /\ s[i + 1] = "T"
    /\ LET e == DigitRunEnd(s, i + 2)
       IN  e > i + 2 /\ e <= Len(s) /\ s[e] = "m"

\* regexp.FindStringSubmatch: the leftmost match and its group, or nothing.
\* The pattern is not anchored, so the match may start anywhere in s.
FindStringSubmatch(s) ==
    LET starts == {i \in 1..Len(s) : MatchAt(s, i)}
    IN  IF starts = {} THEN <<>>
        ELSE LET i == CHOOSE m \in starts : \A o \in starts : m <= o
                 e == DigitRunEnd(s, i + 2)
             IN  <<SubSeq(s, i, e), SubSeq(s, i + 2, e - 1)>>

RECURSIVE StripZeros(_)
StripZeros(ds) ==
    IF Len(ds) > 1 /\ ds[1] = "0" THEN StripZeros(Tail(ds)) ELSE ds

\* the digits read in base 8
RECURSIVE DecimalValueOctal(_, _)
DecimalValueOctal(ds, acc) ==
    IF ds = <<>> THEN acc ELSE DecimalValueOctal(Tail(ds), acc * 8 + DigitVal(ds[1]))

RECURSIVE DecimalValue(_, _)
DecimalValue(ds, acc) ==
    IF ds = <<>> THEN acc ELSE DecimalValue(Tail(ds), acc * 10 + DigitVal(ds[1]))

\* ds > "9223372036854775807" for two digit strings of the same length
RECURSIVE LexGreater(_, _)
LexGreater(ds, mx) ==
    IF ds = <<>> THEN FALSE
    ELSE IF DigitVal(ds[1]) # DigitVal(mx[1]) THEN DigitVal(ds[1]) > DigitVal(mx[1])
    ELSE LexGreater(Tail(ds), Tail(mx))

IntMaxDigitsSeq ==
    <<"9", "2", "2", "3", "3", "7", "2", "0", "3", "6", "8", "5", "4", "7", "7",
      "5", "8", "0", "7">>

IntMaxDigits == Len(IntMaxDigitsSeq)

\* strconv.Atoi on a non-empty run of digits: out of range above 2^63-1
Atoi(ds) ==
    LET sig == StripZeros(ds)
    IN  IF \/ Len(sig) > IntMaxDigits
           \/ (Len(sig) = IntMaxDigits /\ LexGreater(sig, IntMaxDigitsSeq))
        THEN [val |-> 0, err |-> "out of range"]
        ELSE [val |-> DecimalValue(sig, 0), err |-> ""]

ParseISODuration(duration) ==
    LET matches == FindStringSubmatch(duration)
    IN  IF Len(matches) # 2
        THEN [minutes |-> 0, err |-> "invalid ISO 8601 duration format"]
        ELSE LET a == Atoi(matches[2])
             IN  IF a.err # ""
                 THEN [minutes |-> 0, err |-> "unable to convert minutes"]
                 ELSE [minutes |-> a.val, err |-> ""]

(***************************************************************************)
(* fmt.Sprintf("%d", n) for n >= 0.                                        *)
(***************************************************************************)
DigitChar(d) ==
    CASE d = 0 -> "0" [] d = 1 -> "1" [] d = 2 -> "2" [] d = 3 -> "3"
      [] d = 4 -> "4" [] d = 5 -> "5" [] d = 6 -> "6" [] d = 7 -> "7"
      [] d = 8 -> "8" [] d = 9 -> "9"

\* the decimal numeral of a natural number
RECURSIVE Numeral(_)
Numeral(n) ==
    IF n < 10 THEN <<DigitChar(n)>> ELSE Append(Numeral(n \div 10), DigitChar(n % 10))

\* fmt.Sprintf("%d", minutes*60). The product is written as (minutes*6)*10,
\* which is the same number and stays inside the checker's integers for
\* every minutes the model parses.
SecondsString(minutes) ==
    IF minutes = 0 THEN <<"0">> ELSE Append(Numeral(minutes * 6), "0")

(***************************************************************************)
(* perfana_client: NewClient, makeRequest, Init, TestEvent,                *)
(* SendPerfanaEvent. A response of the service is a transport failure or   *)
(* an HTTP status with a body.                                             *)
(***************************************************************************)
Statuses == {200, 204, 304, 404, 500}

\* bodies: not JSON; JSON without testRunId; JSON with an empty testRunId;
\* JSON with an id
Bodies == {"garbage", "noid", "emptyid", "run-1"}

Responses ==
    {[transport |-> TRUE, status |-> 0, body |-> "garbage"]}
        \cup {[transport |-> FALSE, status |-> s, body |-> b] : s \in Statuses, b \in Bodies}

\* tls.X509KeyPair succeeds exactly on a parsable, matching pair
createTLSClient(cfg) ==
    IF cfg.keyPairOk THEN [client |-> "tls", err |-> ""]
    ELSE [client |-> "nil", err |-> "failed to load client certificate and key"]

\* NewClient loading the key pair whether or not mTLS is enabled
NewClientAlwaysTLS(cfg) ==
    IF cfg.baseUrl = "" THEN [client |-> "nil", err |-> "baseUrl is required"]
    ELSE LET t == createTLSClient(cfg)
         IN  IF t.err # "" THEN [client |-> "nil", err |-> "failed to create TLS client"]
             ELSE [client |-> t.client, err |-> ""]

NewClient(cfg) ==
    IF cfg.baseUrl = "" THEN [client |-> "nil", err |-> "baseUrl is required"]
    ELSE IF ~cfg.mtlsEnabled THEN [client |-> "plain", err |-> ""]
    ELSE LET t == createTLSClient(cfg)
         IN  IF t.err # "" THEN [client |-> "nil", err |-> "failed to create TLS client"]
             ELSE [client |-> t.client, err |-> ""]

makeRequest(resp) ==
    IF resp.transport THEN [body |-> "nil", err |-> "transport"]
    ELSE IF resp.status >= 400 THEN [body |-> "nil", err |-> "HTTP error"]
    ELSE [body |-> resp.body, err |-> ""]

\* json.Unmarshal of the body into struct{TestRunID string}
Unmarshal(body) ==
    IF body = "garbage" THEN [TestRunID |-> "", err |-> "syntax"]
    ELSE IF body \in {"noid", "emptyid"} THEN [TestRunID |-> "", err |-> ""]
    ELSE [TestRunID |-> body, err |-> ""]

\* Init without the check of lines 144-146
ClientInitNoEmptyCheck(resp) ==
    LET r == makeRequest(resp)
    IN  IF r.err # "" THEN [testRunId |-> "", err |-> r.err]
        ELSE LET u == Unmarshal(r.body)
             IN  IF u.err # ""
                 THEN [testRunId |-> "", err |-> "failed to parse JSON response"]
                 ELSE [testRunId |-> u.TestRunID, err |-> ""]

ClientInit(resp) ==
    LET r == makeRequest(resp)
    IN  IF r.err # "" THEN [testRunId |-> "", err |-> r.err]
        ELSE LET u == Unmarshal(r.body)
             IN  IF u.err # ""
                 THEN [testRunId |-> "", err |-> "failed to parse JSON response"]
                 ELSE IF u.TestRunID = ""
                 THEN [testRunId |-> "", err |-> "received empty testRunId in the response"]
                 ELSE [testRunId |-> u.TestRunID, err |-> ""]

\* the error TestEvent returns for a response
TestEvent(resp) == makeRequest(resp).err

\* SendPerfanaEvent taking every 2xx status for a success
SendPerfanaEventAny2xx(resp) ==
    IF resp.transport THEN [msg |-> "", err |-> "failed to execute request"]
    ELSE IF resp.status < 200 \/ resp.status > 299
    THEN [msg |-> resp.body, err |-> "non-200 response received"]
    ELSE [msg |-> "Event sent successfully.", err |-> ""]

\* the (message, error) SendPerfanaEvent returns for a response
SendPerfanaEvent(resp) ==
    IF resp.transport THEN [msg |-> "", err |-> "failed to execute request"]
    ELSE IF resp.status # 200 THEN [msg |-> resp.body, err |-> "non-200 response received"]
    ELSE [msg |-> "Event sent successfully.", err |-> ""]

\* the request http.NewRequestWithContext and req.Header.Set build in
\* makeRequest; "Bearer "+apiKey is the pair of its two parts
makeRequestSent(cfg, path, body) ==
    [method |-> "POST", url |-> <<cfg.baseUrl, path>>,
     Authorization |-> <<"Bearer ", cfg.apiKey>>,
     ContentType |-> "application/json", body |-> body]

\* the request of Init
InitRequest(cfg) ==
    makeRequestSent(cfg, "/api/init",
        [systemUnderTest |-> cfg.systemUnderTest,
         testEnvironment |-> cfg.environment,
         workload |-> cfg.workload])

\* the PerfanaMessage TestEvent marshals
PerfanaMessage(cfg, id, data, completed) ==
    [testRunId |-> id, workload |-> cfg.workload,
     testEnvironment |-> cfg.environment,
     systemUnderTest |-> cfg.systemUnderTest,
     version |-> data.version, CIBuildResultsUrl |-> data.cibuildResultsUrl,
     rampUp |-> data.rampUp, duration |-> data.duration,
     completed |-> completed, annotations |-> data.annotations,
     tags |-> data.tags, variables |-> data.variables,
     deepLinks |-> data.deepLinks]

\* the request of TestEvent
TestEventRequest(cfg, id, data, completed) ==
    makeRequestSent(cfg, "/api/test", PerfanaMessage(cfg, id, data, completed))

\* the request of SendPerfanaEvent without the API key
SendPerfanaEventRequestNoKey(cfg, event) ==
    [method |-> "POST", url |-> <<cfg.baseUrl, "/api/events">>,
     Authorization |-> <<"Bearer ", "">>,
     ContentType |-> "application/json", body |-> event]

\* the request of SendPerfanaEvent, which sets its headers itself
SendPerfanaEventRequest(cfg, event) ==
    [method |-> "POST", url |-> <<cfg.baseUrl, "/api/events">>,
     Authorization |-> <<"Bearer ", cfg.apiKey>>,
     ContentType |-> "application/json", body |-> event]

(***************************************************************************)
(* History events.                                                         *)
(***************************************************************************)
CallEv(op, by, completed, id, req) ==
    [ev |-> "call", op |-> op, by |-> by, completed |-> completed,
     testRunId |-> id, req |-> req]

ReturnEv(op, by, completed, id, err) ==
    [ev |-> "return", op |-> op, by |-> by, completed |-> completed,
     testRunId |-> id, err |-> err]

\* close(stopChan), in the branch the select has taken
CloseEv(branch) == [ev |-> "close", branch |-> branch]

(***************************************************************************)
(* Inputs of a run.                                                        *)
(***************************************************************************)
\* perfana.yaml as startCmd finds it: readable says whether os.ReadFile and
\* yaml.Unmarshal succeed, keyPairOk whether mtls.clientCert and
\* mtls.clientKey hold a parsable, matching pair
Profile(readable, baseUrl, mtlsEnabled, keyPairOk) ==
    [readable |-> readable, apiKey |-> "key-1", baseUrl |-> baseUrl,
     systemUnderTest |-> "sut", environment |-> "acc", workload |-> "loadTest",
     mtlsEnabled |-> mtlsEnabled, keyPairOk |-> keyPairOk]

Configs ==
    {Profile(FALSE, "http://perfana", FALSE, FALSE),
     Profile(TRUE, "", FALSE, FALSE),
     Profile(TRUE, "http://perfana", FALSE, FALSE),
     Profile(TRUE, "http://perfana", TRUE, FALSE),
     Profile(TRUE, "http://perfana", TRUE, TRUE)}

\* the flags --version, --buildResultsUrl, --annotation and --tags of the
\* run, the last as strings.Split leaves it
version == "1.0.0"
buildResultsUrl == "http://ci/1"
annotation == "nightly"
tags == <<"k6", "jfr">>

\* additionalData before init.go:636
NoData ==
    [version |-> "", cibuildResultsUrl |-> "", rampUp |-> <<>>, duration |-> <<>>,
     annotations |-> "", tags |-> <<>>, variables |-> <<>>, deepLinks |-> <<>>]

\* --rampupTime: one minute, hours (no match) and 153722868 minutes, the
\* first count of minutes whose nanoseconds pass 2^63-1
RampupInputs ==
    {<<"P", "T", "1", "m">>, <<"P", "T", "5", "h">>,
     <<"P", "T", "1", "5", "3", "7", "2", "2", "8", "6", "8", "m">>}

\* --constantLoadTime: no minutes, one minute and a bare number (no match)
ConstantLoadInputs ==
    {<<"P", "T", "0", "m">>, <<"P", "T", "1", "m">>, <<"1", "5">>}

\* no call of util.ParseISODuration has returned
NotParsed == [done |-> FALSE, minutes |-> 0, err |-> ""]

\* the longest string of ParseAlphabet given to util.ParseISODuration
MaxParseLen == 5

ParseAlphabet == {"P", "T", "m", "0", "1", "-"}

\* strings a caller may pass besides the short ones: the forms the
\* documentation names, zero padding, and minutes above 2^63-1
NamedDurations ==
    { <<"x", "P", "T", "1", "0", "m", "a", "b", "c">>,
      <<"P", "T", "5", "m", "P", "T", "7", "m">>,
      <<"P", "T", "1", "h", "3", "0", "m">>,
      <<"-", "P", "T", "5", "m">>,
      <<"P", "T", "5", "h">>,
      <<"i", "n", "v", "a", "l", "i", "d">>,
      <<"P", "T", "1", "5", "m">>,
      <<"P", "T", "0", "0", "7", "m">>,
      <<"P", "T", "9", "2", "2", "3", "3", "7", "2", "0", "3", "6",
        "8", "5", "4", "7", "7", "5", "8", "0", "8", "m">>,
      <<"P", "T", "0", "0", "0", "1", "8", "4", "4", "6", "7", "4",
        "4", "0", "7", "3", "7", "0", "9", "5", "5", "1", "6", "1",
        "6", "m">> }

ParseInputs ==
    UNION {[1..k -> ParseAlphabet] : k \in 0..MaxParseLen} \cup NamedDurations

\* the statuses a response to an operation called on its own may carry
ClientStatuses == {101, 200, 201, 204, 304, 399, 400, 404, 500}

ClientResponses ==
    {[transport |-> TRUE, status |-> 0, body |-> "garbage"]}
        \cup {[transport |-> FALSE, status |-> s, body |-> b] :
                 s \in ClientStatuses, b \in Bodies}

\* the configurations NewClient may be given
ClientConfigs ==
    {Profile(TRUE, u, m, k) : u \in {"", "http://perfana"}, m \in BOOLEAN,
                              k \in BOOLEAN}

\* a call of one operation: NewClient with a configuration, Init, TestEvent
\* or SendPerfanaEvent with the response the service gives
ClientCalls ==
    {[op |-> "NewClient", cfg |-> c, resp |-> [transport |-> TRUE, status |-> 0, body |-> "garbage"]] :
        c \in ClientConfigs}
    \cup {[op |-> o, cfg |-> Profile(TRUE, "http://perfana", FALSE, FALSE), resp |-> r] :
            o \in {"Init", "TestEvent", "SendPerfanaEvent"}, r \in ClientResponses}

(***************************************************************************)
(* The --variable and --deeplink flags (init.go:576-603).  A string that   *)
(* is taken apart is a sequence of its characters.                         *)
(***************************************************************************)
\* the most characters of an entry and the most entries of a flag
MaxEntryLen == 2
MaxEntries == 2

\* unicode.IsSpace, for the white space a command line carries
IsSpace(c) == c \in {" ", "\t", "\n", "\r"}

\* strings.Index(s, sep) + 1: the place of the first sep in s, 0 without one
Index(s, sep) ==
    IF \E i \in 1..Len(s) : s[i] = sep
    THEN CHOOSE i \in 1..Len(s) :
            /\ s[i] = sep
            /\ \A j \in 1..(i - 1) : s[j] # sep
    ELSE 0

\* the place of the last sep in s, 0 without one
LastIndex(s, sep) ==
    IF \E i \in 1..Len(s) : s[i] = sep
    THEN CHOOSE i \in 1..Len(s) :
            /\ s[i] = sep
            /\ \A j \in (i + 1)..Len(s) : s[j] # sep
    ELSE 0

\* s cut in two at its last sep
SplitNAtLast(s, sep) ==
    LET i == LastIndex(s, sep)
    IN  IF i = 0 THEN <<s>>
        ELSE <<SubSeq(s, 1, i - 1), SubSeq(s, i + 1, Len(s))>>

\* strings.SplitN(s, sep, 2)
SplitN(s, sep) ==
    LET i == Index(s, sep)
    IN  IF i = 0 THEN <<s>>
        ELSE <<SubSeq(s, 1, i - 1), SubSeq(s, i + 1, Len(s))>>

\* strings.TrimSpace(s)
TrimSpace(s) ==
    LET kept == {i \in 1..Len(s) : ~IsSpace(s[i])}
    IN  IF kept = {} THEN <<>>
        ELSE SubSeq(s, CHOOSE i \in kept : \A j \in kept : i <= j,
                       CHOOSE i \in kept : \A j \in kept : j <= i)

\* nothing parsed and nothing printed
NotSplit == [done |-> FALSE, variables |-> <<>>, deepLinks |-> <<>>, out |-> <<>>]

\* the loop of init.go:578-588 over the entries left, acc what it has so far
RECURSIVE ParseVariables(_, _)
ParseVariables(variablesFlag, acc) ==
    IF variablesFlag = <<>> THEN acc
    ELSE LET v == Head(variablesFlag)
             parts == SplitN(v, "=")
         IN  ParseVariables(Tail(variablesFlag),
                IF Len(parts) # 2
                THEN [acc EXCEPT !.out = Append(@, <<"Invalid variable format", v>>)]
                ELSE [acc EXCEPT !.variables =
                        Append(@, [placeholder |-> TrimSpace(parts[1]),
                                   value |-> TrimSpace(parts[2])])])

\* the loop of init.go:592-603
RECURSIVE ParseDeepLinks(_, _)
ParseDeepLinks(deepLinksFlag, acc) ==
    IF deepLinksFlag = <<>> THEN acc
    ELSE LET link == Head(deepLinksFlag)
             parts == SplitN(link, "|")
         IN  ParseDeepLinks(Tail(deepLinksFlag),
                IF Len(parts) # 2
                THEN [acc EXCEPT !.out = Append(@, <<"Invalid deeplink format", link>>)]
                ELSE [acc EXCEPT !.deepLinks =
                        Append(@, [name |-> TrimSpace(parts[1]),
                                   url |-> TrimSpace(parts[2]),
                                   type |-> "link"])])

\* the separator of a flag's entries
SeparatorOf(flag) == IF flag = "variable" THEN "=" ELSE "|"

\* the entries a flag can carry: a letter, the separator and a blank
EntriesOf(flag) ==
    UNION {[1..n -> {"k", SeparatorOf(flag), " "}] : n \in 1..MaxEntryLen}

\* the flags that are parsed
Flags == {"variable", "deeplink"}

\* no flag is parsed on its own
NoFlagArg == [flag |-> "none", entries |-> <<>>]

\* --variable k=v and --deeplink "t|l" of the run, as init.go:576-603 parses them
variablesFlag == << <<"k", "=", "v">> >>
deepLinksFlag == << <<"t", "|", "l">> >>
variables == ParseVariables(variablesFlag, NotSplit).variables
deepLinks == ParseDeepLinks(deepLinksFlag, NotSplit).deepLinks

(***************************************************************************)
(* The init command (initCmd.Run) and its inputs: the flags, the files the *)
(* two path flags name and the directory ~/.perfana-cli.                   *)
(***************************************************************************)
\* perfana_client.Configuration as init.go:53-62 fills it
DefaultConfiguration ==
    [ApiKey |-> "your-api-key", BaseUrl |-> "http://localhost:4000",
     ClientIdentifier |-> "your-client-identifier",
     SystemUnderTest |-> "your-system-under-test",
     Environment |-> "your-environment", Workload |-> "your-workload",
     MTLS |-> [Enabled |-> FALSE, ClientCert |-> "<your-cert-here>",
               ClientKey |-> "<your-private-key-here>"]]

\* yaml.Marshal(&config): the document, keyed by the yaml tags of config.go:5-15
Marshal(c) ==
    [apiKey |-> c.ApiKey, baseUrl |-> c.BaseUrl,
     clientIdentifier |-> c.ClientIdentifier,
     systemUnderTest |-> c.SystemUnderTest, environment |-> c.Environment,
     workload |-> c.Workload,
     mtls |-> [enabled |-> c.MTLS.Enabled, clientCert |-> c.MTLS.ClientCert,
               clientKey |-> c.MTLS.ClientKey]]

\* a perfana.yaml that an earlier use left behind
OldYaml ==
    [apiKey |-> "old-key", baseUrl |-> "http://old", clientIdentifier |-> "old",
     systemUnderTest |-> "old", environment |-> "old", workload |-> "old",
     mtls |-> [enabled |-> TRUE, clientCert |-> "OLD CERT",
               clientKey |-> "OLD KEY"]]

\* a perfana.yaml that was truncated and not written
EmptyYaml ==
    [apiKey |-> "", baseUrl |-> "", clientIdentifier |-> "",
     systemUnderTest |-> "", environment |-> "", workload |-> "",
     mtls |-> [enabled |-> FALSE, clientCert |-> "", clientKey |-> ""]]

\* os.ReadFile(path) for the paths of the flags: two files exist
ReadFile(path) ==
    CASE path = "client.crt" -> [data |-> "CERT PEM", err |-> ""]
      [] path = "client.key" -> [data |-> "KEY PEM", err |-> ""]
      [] OTHER -> [data |-> "", err |-> "no such file or directory"]

\* --clientCertPath and --clientKeyPath: not given, a file, no file
CertPaths == {"", "client.crt", "missing.crt"}
KeyPaths == {"", "client.key", "missing.key"}

\* the flags of init.go:141-148, each not given or given
InitFlags ==
    [clientIdentifier : {"", "acme"}, baseUrl : {"", "http://perfana"},
     apiKey : {"", "key-1"}, systemUnderTest : {"", "sut"},
     environment : {"", "acc"}, workload : {"", "loadTest"},
     clientCertPath : CertPaths, clientKeyPath : KeyPaths]

\* ~/.perfana-cli before the command: missing, empty, or with a perfana.yaml
DotPerfanas ==
    {[dir |-> FALSE, yaml |-> <<>>], [dir |-> TRUE, yaml |-> <<>>],
     [dir |-> TRUE, yaml |-> <<OldYaml>>]}

NoDotPerfana == [dir |-> FALSE, yaml |-> <<>>]

\* initCmd.Run about to start with flags f
InitRunOf(f, pc) ==
    [pc |-> pc, flags |-> f, config |-> DefaultConfiguration,
     certPresent |-> FALSE, keyPresent |-> FALSE, out |-> <<>>]

\* the init command is not run
NoInitRun ==
    InitRunOf([clientIdentifier |-> "", baseUrl |-> "", apiKey |-> "",
               systemUnderTest |-> "", environment |-> "", workload |-> "",
               clientCertPath |-> "", clientKeyPath |-> ""], "none")

NoCall ==
    [op |-> "none", cfg |-> Profile(FALSE, "", FALSE, FALSE),
     resp |-> [transport |-> TRUE, status |-> 0, body |-> "garbage"]]

NoReturn == [done |-> FALSE, value |-> "", err |-> ""]

Init ==
    /\ config \in Configs
    /\ rampupTime \in RampupInputs
    /\ constantLoadTime \in ConstantLoadInputs
    /\ rampupTimeMinutes = 0
    /\ constantLoadTimeMinutes = 0
    /\ testRunID = ""
    /\ pcMain = "load"
    /\ pcKA = "none"
    /\ now = 0
    /\ callAged = {}
    /\ timeoutFired = FALSE
    /\ tickPending = FALSE
    /\ tickerStopped = FALSE
    /\ stopClosed = FALSE
    /\ sigRegistered = FALSE
    /\ signalChan = 0
    /\ interrupts = 0
    /\ intrAt = <<>>
    /\ kaLastErr = ""
    /\ log = <<>>
    /\ parseArg = <<>>
    /\ parsed = NotParsed
    /\ additionalData = NoData
    /\ clientCall = NoCall
    /\ clientReturn = NoReturn
    /\ initRun = NoInitRun
    /\ dotPerfana = NoDotPerfana
    /\ flagArg = NoFlagArg
    /\ flagParsed = NotSplit

(***************************************************************************)
(* The main flow: startCmd.Run.                                            *)
(***************************************************************************)
Alive == pcMain \notin {"exited", "killed"}

\* what becomes of the keep-alive goroutine when the process ends
KAAtProcessEnd(p) ==
    IF p = "call" THEN "aborted" ELSE IF p = "select" THEN "dead" ELSE p

\* The clock advances in steps of the per-call timeout: a remote call lasts at
\* most one such period, the ticker fires every TickPeriods of them and
\* testTimeout after TimeoutPeriods of them.
TickPeriods == KeepAliveSeconds \div CallTimeoutSeconds

\* clock periods in a minute
MinutePeriods == 60 \div CallTimeoutSeconds

\* time.Duration is an int64 of nanoseconds: the whole clock periods (of
\* 10^10 ns) below 2^63 ns and below 2^64 ns
Int63Periods == 922337203
Int64Periods == 1844674407

\* time.Duration(runMinutes) * time.Minute in clock periods. The product
\* is taken modulo 2^64 and read as a signed number: from 2^63 ns on it is
\* negative and time.After fires at once, from 2^64 ns on it is the small
\* positive remainder (rounded up to the next period).
SessionPeriods(runMinutes) ==
    LET p == runMinutes * MinutePeriods
    IN  IF p <= Int63Periods THEN p
        ELSE IF p <= Int64Periods THEN 0
        ELSE p - Int64Periods

TimeoutPeriods == SessionPeriods(rampupTimeMinutes + constantLoadTimeMinutes)

\* init.go:636-645
AdditionalData ==
    [version |-> version, cibuildResultsUrl |-> buildResultsUrl,
     rampUp |-> SecondsString(rampupTimeMinutes),
     duration |-> SecondsString(constantLoadTimeMinutes),
     annotations |-> annotation, tags |-> tags, variables |-> variables,
     deepLinks |-> deepLinks]

\* the abort event carrying the tags of the run
abortEventWithRunTags ==
    [systemUnderTest |-> config.systemUnderTest,
     testEnvironment |-> config.environment,
     title |-> "Test aborted", description |-> "Manually aborted",
     tags |-> tags]

\* init.go:698-704
abortEvent ==
    [systemUnderTest |-> config.systemUnderTest,
     testEnvironment |-> config.environment,
     title |-> "Test aborted", description |-> "Manually aborted",
     tags |-> <<"aborted", "manual">>]

\* MainLoad with a return after each duration that fails to parse
MainLoadParseFatal ==
    /\ pcMain = "load"
    /\  IF /\ config.readable
            /\ ParseISODuration(rampupTime).err = ""
            /\ ParseISODuration(constantLoadTime).err = ""
        THEN /\ rampupTimeMinutes' = ParseISODuration(rampupTime).minutes
             /\ constantLoadTimeMinutes' = ParseISODuration(constantLoadTime).minutes
             /\ pcMain' = "newclient"
        ELSE /\ pcMain' = "exited"
             /\ UNCHANGED <<rampupTimeMinutes, constantLoadTimeMinutes,
                   OtherCmdVars>>
    /\ UNCHANGED <<config, rampupTime, constantLoadTime, testRunID, pcKA, now,
                   callAged, timeoutFired, tickPending, tickerStopped,
                   stopClosed, sigRegistered, signalChan, interrupts, intrAt,
                   kaLastErr, log,
                   parseArg, parsed, additionalData, clientCall,
                   clientReturn,
                   OtherCmdVars>>

\* read and parse perfana.yaml, parse the flags (a failure to read returns)
MainLoad ==
    /\ pcMain = "load"
    /\  IF config.readable
        THEN /\ rampupTimeMinutes' = ParseISODuration(rampupTime).minutes
             /\ constantLoadTimeMinutes' = ParseISODuration(constantLoadTime).minutes
             /\ pcMain' = "newclient"
        ELSE /\ pcMain' = "exited"
             /\ UNCHANGED <<rampupTimeMinutes, constantLoadTimeMinutes,
                   OtherCmdVars>>
    /\ UNCHANGED <<config, rampupTime, constantLoadTime, testRunID, pcKA, now,
                   callAged, timeoutFired, tickPending, tickerStopped,
                   stopClosed, sigRegistered, signalChan, interrupts, intrAt,
                   kaLastErr, log,
                   parseArg, parsed, additionalData, clientCall,
                   clientReturn,
                   OtherCmdVars>>

MainNewClient ==
    /\ pcMain = "newclient"
    /\ pcMain' = IF NewClient(config).err # "" THEN "exited" ELSE "init"
    /\ UNCHANGED <<config, rampupTime, constantLoadTime, rampupTimeMinutes,
                   constantLoadTimeMinutes, testRunID, pcKA, now, callAged,
                   timeoutFired, tickPending, tickerStopped, stopClosed,
                   sigRegistered, signalChan, interrupts, intrAt, kaLastErr,
                   log,
                   parseArg, parsed, additionalData, clientCall,
                   clientReturn,
                   OtherCmdVars>>

\* client.Init() sends its request
MainInitCall ==
    /\ pcMain = "init"
    /\ pcMain' = "init_call"
    /\ log' = Append(log, CallEv("Init", "main", FALSE, "", InitRequest(config)))
    /\ UNCHANGED <<config, rampupTime, constantLoadTime, rampupTimeMinutes,
                   constantLoadTimeMinutes, testRunID, pcKA, now, callAged,
                   timeoutFired, tickPending, tickerStopped, stopClosed,
                   sigRegistered, signalChan, interrupts, intrAt, kaLastErr,
                   parseArg, parsed, additionalData, clientCall,
                   clientReturn,
                   OtherCmdVars>>

\* client.Init() returns and its testRunId is not kept
MainInitReturnDropId ==
    /\ pcMain = "init_call"
    /\ \E resp \in Responses :
        LET r == ClientInit(resp)
        IN  /\ testRunID' = testRunID
            /\ log' = Append(log, ReturnEv("Init", "main", FALSE, r.testRunId, r.err))
            /\ pcMain' = IF r.err # "" THEN "exited" ELSE "start"
    /\ UNCHANGED <<config, rampupTime, constantLoadTime, rampupTimeMinutes,
                   constantLoadTimeMinutes, pcKA, now, callAged, timeoutFired,
                   tickPending, tickerStopped, stopClosed, sigRegistered,
                   signalChan, interrupts, intrAt, kaLastErr,
                   parseArg, parsed, additionalData, clientCall,
                   clientReturn,
                   OtherCmdVars>>

\* client.Init() returns and a failed call is made again
MainInitReturnRetry ==
    /\ pcMain = "init_call"
    /\ \E resp \in Responses :
        LET r == ClientInit(resp)
        IN  /\ testRunID' = r.testRunId
            /\ log' = Append(log, ReturnEv("Init", "main", FALSE, r.testRunId, r.err))
            /\ pcMain' = IF r.err # "" THEN "init" ELSE "start"
    /\ UNCHANGED <<config, rampupTime, constantLoadTime, rampupTimeMinutes,
                   constantLoadTimeMinutes, pcKA, now, callAged, timeoutFired,
                   tickPending, tickerStopped, stopClosed, sigRegistered,
                   signalChan, interrupts, intrAt, kaLastErr,
                   parseArg, parsed, additionalData, clientCall,
                   clientReturn,
                   OtherCmdVars>>

\* client.Init() returns; an error returns from Run
MainInitReturn ==
    /\ pcMain = "init_call"
    /\ \E resp \in Responses :
        LET r == ClientInit(resp)
        IN  /\ testRunID' = r.testRunId
            /\ log' = Append(log, ReturnEv("Init", "main", FALSE, r.testRunId, r.err))
            /\ pcMain' = IF r.err # "" THEN "exited" ELSE "start"
    /\ UNCHANGED <<config, rampupTime, constantLoadTime, rampupTimeMinutes,
                   constantLoadTimeMinutes, pcKA, now, callAged, timeoutFired,
                   tickPending, tickerStopped, stopClosed, sigRegistered,
                   signalChan, interrupts, intrAt, kaLastErr,
                   parseArg, parsed, additionalData, clientCall,
                   clientReturn,
                   OtherCmdVars>>

\* client.TestEvent(testRunID, additionalData, false) sends the start event
MainStartCall ==
    /\ pcMain = "start"
    /\ pcMain' = "start_call"
    /\ additionalData' = AdditionalData
    /\ log' = Append(log, CallEv("TestEvent", "main", FALSE, testRunID,
                     TestEventRequest(config, testRunID, additionalData', FALSE)))
    /\ UNCHANGED <<config, rampupTime, constantLoadTime, rampupTimeMinutes,
                   constantLoadTimeMinutes, testRunID, pcKA, now, callAged,
                   timeoutFired, tickPending, tickerStopped, stopClosed,
                   sigRegistered, signalChan, interrupts, intrAt, kaLastErr,
                   parseArg, parsed, clientCall, clientReturn,
                   OtherCmdVars>>

\* the start event returns; an error returns from Run
MainStartReturn ==
    /\ pcMain = "start_call"
    /\ \E resp \in Responses :
        LET err == TestEvent(resp)
        IN  /\ log' = Append(log, ReturnEv("TestEvent", "main", FALSE, testRunID, err))
            /\ pcMain' = IF err # "" THEN "exited" ELSE "timers"
    /\ UNCHANGED <<config, rampupTime, constantLoadTime, rampupTimeMinutes,
                   constantLoadTimeMinutes, testRunID, pcKA, now, callAged,
                   timeoutFired, tickPending, tickerStopped, stopClosed,
                   sigRegistered, signalChan, interrupts, intrAt, kaLastErr,
                   parseArg, parsed, additionalData, clientCall,
                   clientReturn,
                   OtherCmdVars>>

\* time.After, time.NewTicker, make(chan struct{}), go func() {...}()
MainTimers ==
    /\ pcMain = "timers"
    /\ pcMain' = "notify"
    /\ now' = 0
    /\ timeoutFired' = (TimeoutPeriods = 0)
    /\ tickPending' = FALSE
    /\ pcKA' = "select"
    /\ UNCHANGED <<config, rampupTime, constantLoadTime, rampupTimeMinutes,
                   constantLoadTimeMinutes, testRunID, callAged,
                   tickerStopped, stopClosed, sigRegistered, signalChan,
                   interrupts, intrAt, kaLastErr, log,
                   parseArg, parsed, additionalData, clientCall,
                   clientReturn,
                   OtherCmdVars>>

\* signal.Notify never returns
MainNotifyBlocks ==
    /\ pcMain = "notify"
    /\ UNCHANGED vars

\* signalChan := make(chan os.Signal, 1); signal.Notify(signalChan, ...)
MainNotify ==
    /\ pcMain = "notify"
    /\ pcMain' = "select"
    /\ sigRegistered' = TRUE
    /\ UNCHANGED <<config, rampupTime, constantLoadTime, rampupTimeMinutes,
                   constantLoadTimeMinutes, testRunID, pcKA, now, callAged,
                   timeoutFired, tickPending, tickerStopped, stopClosed,
                   signalChan, interrupts, intrAt, kaLastErr, log,
                   parseArg, parsed, additionalData, clientCall,
                   clientReturn,
                   OtherCmdVars>>

\* the timeout branch without its close(stopChan)
MainSelectTimeoutNoClose ==
    /\ pcMain = "select"
    /\ timeoutFired
    /\ timeoutFired' = FALSE
    /\ pcMain' = "complete"
    /\ UNCHANGED <<config, rampupTime, constantLoadTime, rampupTimeMinutes,
                   constantLoadTimeMinutes, testRunID, pcKA, now, callAged,
                   tickPending, tickerStopped, stopClosed, sigRegistered,
                   signalChan, interrupts, intrAt, kaLastErr, log,
                   parseArg, parsed, additionalData, clientCall,
                   clientReturn,
                   OtherCmdVars>>

\* select: case <-testTimeout, then close(stopChan)
MainSelectTimeout ==
    /\ pcMain = "select"
    /\ timeoutFired
    /\ timeoutFired' = FALSE
    /\ stopClosed' = TRUE
    /\ log' = Append(log, CloseEv("timeout"))
    /\ pcMain' = "complete"
    /\ UNCHANGED <<config, rampupTime, constantLoadTime, rampupTimeMinutes,
                   constantLoadTimeMinutes, testRunID, pcKA, now, callAged,
                   tickPending, tickerStopped, sigRegistered, signalChan,
                   interrupts, intrAt, kaLastErr,
                   parseArg, parsed, additionalData, clientCall,
                   clientReturn,
                   OtherCmdVars>>

\* the interrupt branch running the body of the timeout branch
MainSelectSignalCompletes ==
    /\ pcMain = "select"
    /\ signalChan > 0
    /\ signalChan' = signalChan - 1
    /\ stopClosed' = TRUE
    /\ log' = Append(log, CloseEv("signal"))
    /\ pcMain' = "complete"
    /\ UNCHANGED <<config, rampupTime, constantLoadTime, rampupTimeMinutes,
                   constantLoadTimeMinutes, testRunID, pcKA, now, callAged,
                   timeoutFired, tickPending, tickerStopped, sigRegistered,
                   interrupts, intrAt, kaLastErr,
                   parseArg, parsed, additionalData, clientCall,
                   clientReturn,
                   OtherCmdVars>>

\* select: case <-signalChan, then close(stopChan)
MainSelectSignal ==
    /\ pcMain = "select"
    /\ signalChan > 0
    /\ signalChan' = signalChan - 1
    /\ stopClosed' = TRUE
    /\ log' = Append(log, CloseEv("signal"))
    /\ pcMain' = "abort"
    /\ UNCHANGED <<config, rampupTime, constantLoadTime, rampupTimeMinutes,
                   constantLoadTimeMinutes, testRunID, pcKA, now, callAged,
                   timeoutFired, tickPending, tickerStopped, sigRegistered,
                   interrupts, intrAt, kaLastErr,
                   parseArg, parsed, additionalData, clientCall,
                   clientReturn,
                   OtherCmdVars>>

\* client.TestEvent(testRunID, additionalData, true) sends the completion event
MainCompleteCall ==
    /\ pcMain = "complete"
    /\ pcMain' = "complete_call"
    /\ log' = Append(log, CallEv("TestEvent", "main", TRUE, testRunID,
                     TestEventRequest(config, testRunID, additionalData, TRUE)))
    /\ callAged' = callAged \ {"main"}
    /\ UNCHANGED <<config, rampupTime, constantLoadTime, rampupTimeMinutes,
                   constantLoadTimeMinutes, testRunID, pcKA, now,
                   timeoutFired, tickPending, tickerStopped, stopClosed,
                   sigRegistered, signalChan, interrupts, intrAt, kaLastErr,
                   parseArg, parsed, additionalData, clientCall,
                   clientReturn,
                   OtherCmdVars>>

\* the completion event returns and the select is entered again, as if the
\* select stood in a loop
MainCompleteReturnLoop ==
    /\ pcMain = "complete_call"
    /\ \E resp \in Responses :
        log' = Append(log, ReturnEv("TestEvent", "main", TRUE, testRunID, TestEvent(resp)))
    /\ pcMain' = "select"
    /\ UNCHANGED <<config, rampupTime, constantLoadTime, rampupTimeMinutes,
                   constantLoadTimeMinutes, testRunID, pcKA, now, callAged,
                   timeoutFired, tickPending, tickerStopped, stopClosed,
                   sigRegistered, signalChan, interrupts, intrAt, kaLastErr,
                   parseArg, parsed, additionalData, clientCall,
                   clientReturn,
                   OtherCmdVars>>

\* the completion event returns; its error is only printed
MainCompleteReturn ==
    /\ pcMain = "complete_call"
    /\ \E resp \in Responses :
        log' = Append(log, ReturnEv("TestEvent", "main", TRUE, testRunID, TestEvent(resp)))
    /\ pcMain' = "finish"
    /\ UNCHANGED <<config, rampupTime, constantLoadTime, rampupTimeMinutes,
                   constantLoadTimeMinutes, testRunID, pcKA, now, callAged,
                   timeoutFired, tickPending, tickerStopped, stopClosed,
                   sigRegistered, signalChan, interrupts, intrAt, kaLastErr,
                   parseArg, parsed, additionalData, clientCall,
                   clientReturn,
                   OtherCmdVars>>

\* client.SendPerfanaEvent(abortEvent) sends the abort annotation
MainAbortCall ==
    /\ pcMain = "abort"
    /\ pcMain' = "abort_call"
    /\ log' = Append(log, CallEv("SendPerfanaEvent", "main", FALSE, "",
                     SendPerfanaEventRequest(config, abortEvent)))
    /\ callAged' = callAged \ {"main"}
    /\ UNCHANGED <<config, rampupTime, constantLoadTime, rampupTimeMinutes,
                   constantLoadTimeMinutes, testRunID, pcKA, now,
                   timeoutFired, tickPending, tickerStopped, stopClosed,
                   sigRegistered, signalChan, interrupts, intrAt, kaLastErr,
                   parseArg, parsed, additionalData, clientCall,
                   clientReturn,
                   OtherCmdVars>>

\* the abort annotation returns; its error is only printed
MainAbortReturn ==
    /\ pcMain = "abort_call"
    /\ \E resp \in Responses :
        log' = Append(log, ReturnEv("SendPerfanaEvent", "main", FALSE, "",
                                    SendPerfanaEvent(resp).err))
    /\ pcMain' = "finish"
    /\ UNCHANGED <<config, rampupTime, constantLoadTime, rampupTimeMinutes,
                   constantLoadTimeMinutes, testRunID, pcKA, now, callAged,
                   timeoutFired, tickPending, tickerStopped, stopClosed,
                   sigRegistered, signalChan, interrupts, intrAt, kaLastErr,
                   parseArg, parsed, additionalData, clientCall,
                   clientReturn,
                   OtherCmdVars>>

\* fmt.Println("Finished..."), Run returns and the process exits,
\* which ends the keep-alive goroutine wherever it is
MainExit ==
    /\ pcMain = "finish"
    /\ pcMain' = "exited"
    /\ pcKA' = KAAtProcessEnd(pcKA)
    /\ UNCHANGED <<config, rampupTime, constantLoadTime, rampupTimeMinutes,
                   constantLoadTimeMinutes, testRunID, now, callAged,
                   timeoutFired, tickPending, tickerStopped, stopClosed,
                   sigRegistered, signalChan, interrupts, intrAt, kaLastErr,
                   log,
                   parseArg, parsed, additionalData, clientCall,
                   clientReturn,
                   OtherCmdVars>>

(***************************************************************************)
(* The keep-alive goroutine.                                               *)
(***************************************************************************)
\* the keep-alive sent with completed=true
KATickCompleted ==
    /\ Alive
    /\ pcKA = "select"
    /\ tickPending
    /\ tickPending' = FALSE
    /\ pcKA' = "call"
    /\ log' = Append(log, CallEv("TestEvent", "ka", TRUE, testRunID,
                     TestEventRequest(config, testRunID, additionalData, TRUE)))
    /\ callAged' = callAged \ {"ka"}
    /\ UNCHANGED <<config, rampupTime, constantLoadTime, rampupTimeMinutes,
                   constantLoadTimeMinutes, testRunID, pcMain, now,
                   timeoutFired, tickerStopped, stopClosed, sigRegistered,
                   signalChan, interrupts, intrAt, kaLastErr,
                   parseArg, parsed, additionalData, clientCall,
                   clientReturn,
                   OtherCmdVars>>

\* the keep-alive sent without the tags of the run
KATickNoTags ==
    /\ Alive
    /\ pcKA = "select"
    /\ tickPending
    /\ tickPending' = FALSE
    /\ pcKA' = "call"
    /\ log' = Append(log, CallEv("TestEvent", "ka", FALSE, testRunID,
                     TestEventRequest(config, testRunID,
                         [additionalData EXCEPT !.tags = <<>>], FALSE)))
    /\ callAged' = callAged \ {"ka"}
    /\ UNCHANGED <<config, rampupTime, constantLoadTime, rampupTimeMinutes,
                   constantLoadTimeMinutes, testRunID, pcMain, now,
                   timeoutFired, tickerStopped, stopClosed, sigRegistered,
                   signalChan, interrupts, intrAt, kaLastErr,
                   parseArg, parsed, additionalData, clientCall,
                   clientReturn,
                   OtherCmdVars>>

\* a keep-alive sent without waiting for its return: the goroutine is back
\* at its select while the call is in flight
KATickDetached ==
    /\ Alive
    /\ pcKA = "select"
    /\ tickPending
    /\ tickPending' = FALSE
    /\ pcKA' = "select"
    /\ log' = Append(log, CallEv("TestEvent", "ka", FALSE, testRunID,
                     TestEventRequest(config, testRunID, additionalData, FALSE)))
    /\ callAged' = callAged \ {"ka"}
    /\ UNCHANGED <<config, rampupTime, constantLoadTime, rampupTimeMinutes,
                   constantLoadTimeMinutes, testRunID, pcMain, now,
                   timeoutFired, tickerStopped, stopClosed, sigRegistered,
                   signalChan, interrupts, intrAt, kaLastErr,
                   parseArg, parsed, additionalData, clientCall,
                   clientReturn,
                   OtherCmdVars>>

\* select: case <-keepAliveTicker.C, then client.TestEvent(..., false) is sent.
\* Go's select chooses among the ready cases at random, so a closed stopChan
\* does not disable this case.
KATick ==
    /\ Alive
    /\ pcKA = "select"
    /\ tickPending
    /\ tickPending' = FALSE
    /\ pcKA' = "call"
    /\ log' = Append(log, CallEv("TestEvent", "ka", FALSE, testRunID,
                     TestEventRequest(config, testRunID, additionalData, FALSE)))
    /\ callAged' = callAged \ {"ka"}
    /\ UNCHANGED <<config, rampupTime, constantLoadTime, rampupTimeMinutes,
                   constantLoadTimeMinutes, testRunID, pcMain, now,
                   timeoutFired, tickerStopped, stopClosed, sigRegistered,
                   signalChan, interrupts, intrAt, kaLastErr,
                   parseArg, parsed, additionalData, clientCall,
                   clientReturn,
                   OtherCmdVars>>

\* the keep-alive returns and an error leaves the loop
KAReturnStopOnError ==
    /\ Alive
    /\ pcKA = "call"
    /\ \E resp \in Responses :
        /\ kaLastErr' = TestEvent(resp)
        /\ pcKA' = IF TestEvent(resp) # "" THEN "stopped" ELSE "select"
    /\ UNCHANGED <<config, rampupTime, constantLoadTime, rampupTimeMinutes,
                   constantLoadTimeMinutes, testRunID, pcMain, now, callAged,
                   timeoutFired, tickPending, tickerStopped, stopClosed,
                   sigRegistered, signalChan, interrupts, intrAt, log,
                   parseArg, parsed, additionalData, clientCall,
                   clientReturn,
                   OtherCmdVars>>

\* the keep-alive returns; its error is only printed, the loop goes on
KAReturn ==
    /\ Alive
    /\ pcKA = "call"
    /\ \E resp \in Responses : kaLastErr' = TestEvent(resp)
    /\ pcKA' = "select"
    /\ UNCHANGED <<config, rampupTime, constantLoadTime, rampupTimeMinutes,
                   constantLoadTimeMinutes, testRunID, pcMain, now, callAged,
                   timeoutFired, tickPending, tickerStopped, stopClosed,
                   sigRegistered, signalChan, interrupts, intrAt, log,
                   parseArg, parsed, additionalData, clientCall,
                   clientReturn,
                   OtherCmdVars>>

\* select: case <-stopChan, then keepAliveTicker.Stop() and return
KAStop ==
    /\ Alive
    /\ pcKA = "select"
    /\ stopClosed
    /\ tickerStopped' = TRUE
    /\ pcKA' = "stopped"
    /\ UNCHANGED <<config, rampupTime, constantLoadTime, rampupTimeMinutes,
                   constantLoadTimeMinutes, testRunID, pcMain, now, callAged,
                   timeoutFired, tickPending, stopClosed, sigRegistered,
                   signalChan, interrupts, intrAt, kaLastErr, log,
                   parseArg, parsed, additionalData, clientCall,
                   clientReturn,
                   OtherCmdVars>>

(***************************************************************************)
(* The environment: the clock and the operator.                            *)
(***************************************************************************)
TimersCreated == pcMain \in {"notify", "select", "complete", "complete_call",
                             "abort", "abort_call", "finish"}

\* The main flow has a step to take that does not wait for the clock: a local
\* step, a select with a ready case, or the return of a call that has already
\* seen the clock advance (a call lasts at most CallTimeoutSeconds).
MainUrgent ==
    \/ pcMain \in {"notify", "complete", "abort", "finish"}
    \/ pcMain = "select" /\ (timeoutFired \/ signalChan > 0)
    \/ pcMain \in {"complete_call", "abort_call"} /\ "main" \in callAged

KAUrgent ==
    \/ pcKA = "select" /\ (tickPending \/ stopClosed)
    \/ pcKA = "call" /\ "ka" \in callAged

\* the flows that are inside a remote call
InFlight ==
    (IF pcMain \in {"complete_call", "abort_call"} THEN {"main"} ELSE {})
        \cup (IF pcKA = "call" THEN {"ka"} ELSE {})

\* CallTimeoutSeconds pass, which happens only when neither flow has a step
\* to take at once: the ticker delivers a tick every TickPeriods unless it was
\* stopped (a tick is dropped when one is still waiting), and testTimeout
\* fires when the planned duration has elapsed
ClockTick ==
    /\ TimersCreated
    /\ now < MaxNow
    /\ ~MainUrgent
    /\ ~KAUrgent
    /\ now' = now + 1
    /\ callAged' = InFlight
    /\ tickPending' = (tickPending \/ ((now + 1) % TickPeriods = 0 /\ ~tickerStopped))
    /\ timeoutFired' = (timeoutFired \/ now + 1 = TimeoutPeriods)
    /\ UNCHANGED <<config, rampupTime, constantLoadTime, rampupTimeMinutes,
                   constantLoadTimeMinutes, testRunID, pcMain, pcKA,
                   tickerStopped, stopClosed, sigRegistered, signalChan,
                   interrupts, intrAt, kaLastErr, log,
                   parseArg, parsed, additionalData, clientCall,
                   clientReturn,
                   OtherCmdVars>>

\* SIGINT or SIGTERM reaches the process: before signal.Notify the default
\* action ends the process; after it the signal is queued in signalChan, or
\* dropped when the channel is full
Interrupt ==
    /\ Alive
    /\ interrupts < MaxInterrupts
    /\ interrupts' = interrupts + 1
    /\ intrAt' = Append(intrAt, pcMain)
    /\ IF sigRegistered
       THEN /\ signalChan' = IF signalChan < SignalChanCap THEN signalChan + 1
                             ELSE signalChan
            /\ UNCHANGED <<pcMain, pcKA,
                   OtherCmdVars>>
       ELSE /\ pcMain' = "killed"
            /\ pcKA' = KAAtProcessEnd(pcKA)
            /\ UNCHANGED signalChan
    /\ UNCHANGED <<config, rampupTime, constantLoadTime, rampupTimeMinutes,
                   constantLoadTimeMinutes, testRunID, now, callAged,
                   timeoutFired, tickPending, tickerStopped, stopClosed,
                   sigRegistered, kaLastErr, log,
                   parseArg, parsed, additionalData, clientCall,
                   clientReturn,
                   OtherCmdVars>>

Next ==
    \/ MainLoad
    \/ MainNewClient
    \/ MainInitCall
    \/ MainInitReturn
    \/ MainStartCall
    \/ MainStartReturn
    \/ MainTimers
    \/ MainNotify
    \/ MainSelectTimeout
    \/ MainSelectSignal
    \/ MainCompleteCall
    \/ MainCompleteReturn
    \/ MainAbortCall
    \/ MainAbortReturn
    \/ MainExit
    \/ KATick
    \/ KAReturn
    \/ KAStop
    \/ ClockTick
    \/ Interrupt

Spec == Init /\ [][Next]_vars

\* the steps of the main flow once the configuration and the flags are read,
\* and the steps of the keep-alive goroutine
MainStep ==
    \/ MainNewClient
    \/ MainInitCall
    \/ MainInitReturn
    \/ MainStartCall
    \/ MainStartReturn
    \/ MainTimers
    \/ MainNotify
    \/ MainSelectTimeout
    \/ MainSelectSignal
    \/ MainCompleteCall
    \/ MainCompleteReturn
    \/ MainAbortCall
    \/ MainAbortReturn
    \/ MainExit

KAStep == KATick \/ KAReturn \/ KAStop

\* The Go scheduler runs a goroutine that can run, every remote call returns
\* within its per-call timeout, and time passes.
FairSpec ==
    /\ Spec
    /\ WF_vars(MainStep)
    /\ WF_vars(KAStep)
    /\ WF_vars(ClockTick)

(***************************************************************************)
(* util.ParseISODuration on its own: a caller passes any string and gets   *)
(* the function's result.                                                  *)
(***************************************************************************)
ParseInit ==
    /\ parseArg \in ParseInputs
    /\ parsed = NotParsed
    /\ additionalData = NoData
    /\ clientCall = NoCall
    /\ clientReturn = NoReturn
    /\ config = CHOOSE c \in Configs : TRUE
    /\ rampupTime = <<>>
    /\ constantLoadTime = <<>>
    /\ rampupTimeMinutes = 0
    /\ constantLoadTimeMinutes = 0
    /\ testRunID = ""
    /\ pcMain = "load"
    /\ pcKA = "none"
    /\ now = 0
    /\ callAged = {}
    /\ timeoutFired = FALSE
    /\ tickPending = FALSE
    /\ tickerStopped = FALSE
    /\ stopClosed = FALSE
    /\ sigRegistered = FALSE
    /\ signalChan = 0
    /\ interrupts = 0
    /\ intrAt = <<>>
    /\ kaLastErr = ""
    /\ log = <<>>
    /\ initRun = NoInitRun
    /\ dotPerfana = NoDotPerfana
    /\ flagArg = NoFlagArg
    /\ flagParsed = NotSplit

\* minutes, err := util.ParseISODuration(duration)
ParseApply ==
    /\ ~parsed.done
    /\ parsed' = LET r == ParseISODuration(parseArg)
                 IN  [done |-> TRUE, minutes |-> r.minutes, err |-> r.err]
    /\ UNCHANGED <<config, rampupTime, constantLoadTime, rampupTimeMinutes,
                   constantLoadTimeMinutes, testRunID, pcMain, pcKA, now,
                   callAged, timeoutFired, tickPending, tickerStopped,
                   stopClosed, sigRegistered, signalChan, interrupts, intrAt,
                   kaLastErr, log, parseArg, additionalData, clientCall,
                   clientReturn,
                   OtherCmdVars>>

ParseNext == ParseApply

ParseSpec == ParseInit /\ [][ParseNext]_vars

(***************************************************************************)
(* The operations of perfana_client on their own: a caller constructs a    *)
(* client, or calls one operation and the service gives one response.      *)
(***************************************************************************)
ClientSpecInit ==
    /\ clientCall \in ClientCalls
    /\ clientReturn = NoReturn
    /\ parseArg = <<>>
    /\ parsed = NotParsed
    /\ additionalData = NoData
    /\ config = CHOOSE c \in Configs : TRUE
    /\ rampupTime = <<>>
    /\ constantLoadTime = <<>>
    /\ rampupTimeMinutes = 0
    /\ constantLoadTimeMinutes = 0
    /\ testRunID = ""
    /\ pcMain = "load"
    /\ pcKA = "none"
    /\ now = 0
    /\ callAged = {}
    /\ timeoutFired = FALSE
    /\ tickPending = FALSE
    /\ tickerStopped = FALSE
    /\ stopClosed = FALSE
    /\ sigRegistered = FALSE
    /\ signalChan = 0
    /\ interrupts = 0
    /\ intrAt = <<>>
    /\ kaLastErr = ""
    /\ log = <<>>
    /\ initRun = NoInitRun
    /\ dotPerfana = NoDotPerfana
    /\ flagArg = NoFlagArg
    /\ flagParsed = NotSplit

\* the variables of a run and of the parser
RunVars ==
    <<config, rampupTime, constantLoadTime, rampupTimeMinutes,
      constantLoadTimeMinutes, testRunID, pcMain, pcKA, now, callAged,
      timeoutFired, tickPending, tickerStopped, stopClosed, sigRegistered,
      signalChan, interrupts, intrAt, kaLastErr, log, parseArg, parsed,
      additionalData, OtherCmdVars>>

\* client, err := NewClient(config)
ApplyNewClient ==
    /\ ~clientReturn.done
    /\ clientCall.op = "NewClient"
    /\ clientReturn' = LET r == NewClient(clientCall.cfg)
                       IN  [done |-> TRUE, value |-> r.client, err |-> r.err]
    /\ UNCHANGED <<RunVars, clientCall>>

\* testRunID, err := client.Init()
ApplyInit ==
    /\ ~clientReturn.done
    /\ clientCall.op = "Init"
    /\ clientReturn' = LET r == ClientInit(clientCall.resp)
                       IN  [done |-> TRUE, value |-> r.testRunId, err |-> r.err]
    /\ UNCHANGED <<RunVars, clientCall>>

\* err := client.TestEvent(...)
ApplyTestEvent ==
    /\ ~clientReturn.done
    /\ clientCall.op = "TestEvent"
    /\ clientReturn' = [done |-> TRUE, value |-> "", err |-> TestEvent(clientCall.resp)]
    /\ UNCHANGED <<RunVars, clientCall>>

\* response, err := client.SendPerfanaEvent(event)
ApplySendPerfanaEvent ==
    /\ ~clientReturn.done
    /\ clientCall.op = "SendPerfanaEvent"
    /\ clientReturn' = LET r == SendPerfanaEvent(clientCall.resp)
                       IN  [done |-> TRUE, value |-> r.msg, err |-> r.err]
    /\ UNCHANGED <<RunVars, clientCall>>

ClientNext ==
    \/ ApplyNewClient
    \/ ApplyInit
    \/ ApplyTestEvent
    \/ ApplySendPerfanaEvent

ClientSpec == ClientSpecInit /\ [][ClientNext]_vars

(***************************************************************************)
(* The init command on its own: initCmd.Run from its flags and the state   *)
(* of ~/.perfana-cli to the file it writes or the error it prints.         *)
(***************************************************************************)
InitCmdInit ==
    /\ initRun \in {InitRunOf(f, "home") : f \in InitFlags}
    /\ dotPerfana \in DotPerfanas
    /\ flagArg = NoFlagArg
    /\ flagParsed = NotSplit
    /\ clientCall = NoCall
    /\ clientReturn = NoReturn
    /\ parseArg = <<>>
    /\ parsed = NotParsed
    /\ additionalData = NoData
    /\ config = CHOOSE c \in Configs : TRUE
    /\ rampupTime = <<>>
    /\ constantLoadTime = <<>>
    /\ rampupTimeMinutes = 0
    /\ constantLoadTimeMinutes = 0
    /\ testRunID = ""
    /\ pcMain = "load"
    /\ pcKA = "none"
    /\ now = 0
    /\ callAged = {}
    /\ timeoutFired = FALSE
    /\ tickPending = FALSE
    /\ tickerStopped = FALSE
    /\ stopClosed = FALSE
    /\ sigRegistered = FALSE
    /\ signalChan = 0
    /\ interrupts = 0
    /\ intrAt = <<>>
    /\ kaLastErr = ""
    /\ log = <<>>

\* the variables the init command leaves alone
NotInitCmdVars ==
    <<config, rampupTime, constantLoadTime, rampupTimeMinutes,
      constantLoadTimeMinutes, testRunID, pcMain, pcKA, now, callAged,
      timeoutFired, tickPending, tickerStopped, stopClosed, sigRegistered,
      signalChan, interrupts, intrAt, kaLastErr, log, parseArg, parsed,
      additionalData, clientCall, clientReturn, flagArg, flagParsed>>

\* fmt.Println(msg); return
InitCmdFail(msg) ==
    [initRun EXCEPT !.pc = "done", !.out = Append(@, msg)]

\* init.go:36-47: os.UserHomeDir() and os.MkdirAll(perfanaDir, 0755), which
\* succeeds on a directory that exists
InitCmdMkdir ==
    /\ initRun.pc = "home"
    /\ \E homeOk \in BOOLEAN, mkdirOk \in {TRUE} \cup {dotPerfana.dir} :
        IF ~homeOk
        THEN /\ initRun' = InitCmdFail("Error finding home directory")
             /\ UNCHANGED dotPerfana
        ELSE IF ~mkdirOk
        THEN /\ initRun' = InitCmdFail("Error creating .perfana-cli directory")
             /\ UNCHANGED dotPerfana
        ELSE /\ initRun' = [initRun EXCEPT !.pc = "config"]
             /\ dotPerfana' = [dotPerfana EXCEPT !.dir = TRUE]
    /\ UNCHANGED NotInitCmdVars

\* a flag's value where it is given, the default where it is not
FlagOr(flag, default) == IF flag # "" THEN flag ELSE default

\* init.go:53-95: the default configuration, with the flags that are given
InitCmdConfigure ==
    /\ initRun.pc = "config"
    /\ initRun' =
        [initRun EXCEPT
            !.pc = "cert",
            !.config =
                [DefaultConfiguration EXCEPT
                    !.ClientIdentifier = FlagOr(initRun.flags.clientIdentifier, @),
                    !.BaseUrl = FlagOr(initRun.flags.baseUrl, @),
                    !.SystemUnderTest = FlagOr(initRun.flags.systemUnderTest, @),
                    !.Environment = FlagOr(initRun.flags.environment, @),
                    !.Workload = FlagOr(initRun.flags.workload, @),
                    !.ApiKey = FlagOr(initRun.flags.apiKey, @)],
            !.certPresent = FALSE,
            !.keyPresent = FALSE]
    /\ UNCHANGED <<dotPerfana, NotInitCmdVars>>

\* init.go:96-104
InitCmdReadCert ==
    /\ initRun.pc = "cert"
    /\ LET clientCertPath == initRun.flags.clientCertPath
           read == ReadFile(clientCertPath)
       IN  initRun' =
            IF clientCertPath = "" THEN [initRun EXCEPT !.pc = "key"]
            ELSE IF read.err # ""
            THEN InitCmdFail("Error reading certificate file")
            ELSE [initRun EXCEPT !.pc = "key",
                                 !.config.MTLS.ClientCert = read.data,
                                 !.certPresent = TRUE]
    /\ UNCHANGED <<dotPerfana, NotInitCmdVars>>

\* init.go:105-113
InitCmdReadKey ==
    /\ initRun.pc = "key"
    /\ LET clientKeyPath == initRun.flags.clientKeyPath
           read == ReadFile(clientKeyPath)
       IN  initRun' =
            IF clientKeyPath = "" THEN [initRun EXCEPT !.pc = "pair"]
            ELSE IF read.err # ""
            THEN InitCmdFail("Error reading private key file")
            ELSE [initRun EXCEPT !.pc = "pair",
                                 !.config.MTLS.ClientKey = read.data,
                                 !.keyPresent = TRUE]
    /\ UNCHANGED <<dotPerfana, NotInitCmdVars>>

\* init.go:114-119 without the return of line 116
InitCmdCheckPairGoesOn ==
    /\ initRun.pc = "pair"
    /\ initRun' =
        [initRun EXCEPT
            !.pc = "write",
            !.out = IF initRun.certPresent # initRun.keyPresent
                    THEN Append(@, "Both client certificate and private key must be provided for mTLS")
                    ELSE @,
            !.config.MTLS.Enabled = initRun.certPresent /\ initRun.keyPresent]
    /\ UNCHANGED <<dotPerfana, NotInitCmdVars>>

\* init.go:114-119
InitCmdCheckPair ==
    /\ initRun.pc = "pair"
    /\ initRun' =
        IF \/ initRun.certPresent /\ ~initRun.keyPresent
           \/ ~initRun.certPresent /\ initRun.keyPresent
        THEN InitCmdFail("Both client certificate and private key must be provided for mTLS")
        ELSE [initRun EXCEPT
                !.pc = "write",
                !.out = Append(@, IF initRun.certPresent /\ initRun.keyPresent
                                  THEN "mTLS enabled: true"
                                  ELSE "mTLS enabled: false"),
                !.config.MTLS.Enabled = initRun.certPresent /\ initRun.keyPresent]
    /\ UNCHANGED <<dotPerfana, NotInitCmdVars>>

\* init.go:121-134: yaml.Marshal and os.WriteFile(configFile, data, 0644),
\* which on an error has opened the file (and emptied it) or has not
InitCmdWriteFile ==
    /\ initRun.pc = "write"
    /\ \E writeOk \in BOOLEAN :
        IF writeOk
        THEN /\ dotPerfana' = [dotPerfana EXCEPT !.yaml = <<Marshal(initRun.config)>>]
             /\ initRun' = [initRun EXCEPT
                    !.pc = "done",
                    !.out = Append(@, "Configuration initialized successfully")]
        ELSE /\ \E opened \in BOOLEAN :
                    dotPerfana' = [dotPerfana EXCEPT
                                     !.yaml = IF opened THEN <<EmptyYaml>> ELSE @]
             /\ initRun' = InitCmdFail("Error writing perfana.yaml")
    /\ UNCHANGED NotInitCmdVars

InitCmdNext ==
    \/ InitCmdMkdir
    \/ InitCmdConfigure
    \/ InitCmdReadCert
    \/ InitCmdReadKey
    \/ InitCmdCheckPair
    \/ InitCmdWriteFile

InitCmdSpec == InitCmdInit /\ [][InitCmdNext]_vars

(***************************************************************************)
(* The parsing of a --variable or --deeplink flag on its own: the entries  *)
(* of one flag go through the loop of init.go:578-588 or init.go:592-603.  *)
(***************************************************************************)
FlagInit ==
    /\ \E f \in Flags, n \in 0..MaxEntries :
        \E es \in [1..n -> EntriesOf(f)] :
            flagArg = [flag |-> f, entries |-> es]
    /\ flagParsed = NotSplit
    /\ initRun = NoInitRun
    /\ dotPerfana = NoDotPerfana
    /\ clientCall = NoCall
    /\ clientReturn = NoReturn
    /\ parseArg = <<>>
    /\ parsed = NotParsed
    /\ additionalData = NoData
    /\ config = CHOOSE c \in Configs : TRUE
    /\ rampupTime = <<>>
    /\ constantLoadTime = <<>>
    /\ rampupTimeMinutes = 0
    /\ constantLoadTimeMinutes = 0
    /\ testRunID = ""
    /\ pcMain = "load"
    /\ pcKA = "none"
    /\ now = 0
    /\ callAged = {}
    /\ timeoutFired = FALSE
    /\ tickPending = FALSE
    /\ tickerStopped = FALSE
    /\ stopClosed = FALSE
    /\ sigRegistered = FALSE
    /\ signalChan = 0
    /\ interrupts = 0
    /\ intrAt = <<>>
    /\ kaLastErr = ""
    /\ log = <<>>

\* the variables the flag parsing leaves alone
NotFlagVars ==
    <<config, rampupTime, constantLoadTime, rampupTimeMinutes,
      constantLoadTimeMinutes, testRunID, pcMain, pcKA, now, callAged,
      timeoutFired, tickPending, tickerStopped, stopClosed, sigRegistered,
      signalChan, interrupts, intrAt, kaLastErr, log, parseArg, parsed,
      additionalData, clientCall, clientReturn, initRun, dotPerfana>>

\* init.go:577-588
ApplyParseVariables ==
    /\ ~flagParsed.done
    /\ flagArg.flag = "variable"
    /\ flagParsed' = [ParseVariables(flagArg.entries, NotSplit) EXCEPT !.done = TRUE]
    /\ UNCHANGED <<flagArg, NotFlagVars>>

\* init.go:591-603
ApplyParseDeepLinks ==
    /\ ~flagParsed.done
    /\ flagArg.flag = "deeplink"
    /\ flagParsed' = [ParseDeepLinks(flagArg.entries, NotSplit) EXCEPT !.done = TRUE]
    /\ UNCHANGED <<flagArg, NotFlagVars>>

FlagNext ==
    \/ ApplyParseVariables
    \/ ApplyParseDeepLinks

FlagSpec == FlagInit /\ [][FlagNext]_vars

(***************************************************************************)
(* Reading the history.                                                    *)
(***************************************************************************)
IsCall(e) == e.ev = "call"

IsKeepAlive(e) == e.ev = "call" /\ e.by = "ka"

IsCompletion(e) == e.ev = "call" /\ e.op = "TestEvent" /\ e.completed

IsAbort(e) == e.ev = "call" /\ e.op = "SendPerfanaEvent"

IsTerminal(e) == IsCompletion(e) \/ IsAbort(e)

IsTerminalReturn(e) ==
    /\ e.ev = "return"
    /\ e.op = "SendPerfanaEvent" \/ (e.op = "TestEvent" /\ e.completed)

IsInitReturn(e) == e.ev = "return" /\ e.op = "Init"

Completions == Cardinality({i \in DOMAIN log : IsCompletion(log[i])})

Aborts == Cardinality({i \in DOMAIN log : IsAbort(log[i])})

\* Init returned a run id: a RunSession exists
InitSucceeded == \E i \in DOMAIN log : IsInitReturn(log[i]) /\ log[i].err = ""

\* an interrupt reached the process while the main flow was at one of pcs
InterruptedAt(pcs) == \E k \in DOMAIN intrAt : intrAt[k] \in pcs

\* the main flow's positions from the success of Init to the select
RunningPcs == {"start", "start_call", "timers", "notify", "select"}

\* the main flow's positions after the select has taken a branch
DecidedPcs == {"complete", "complete_call", "abort", "abort_call", "finish"}

(***************************************************************************)
(* The claims.                                                             *)
(***************************************************************************)

\* C1: in every run in which Init succeeded, when Run has returned exactly one
\* terminal event was sent: one completed=true TestEvent or one abort
\* annotation, never both and never neither, whatever the start event returned.
C1_ExactlyOneTerminal ==
    (pcMain = "exited" /\ InitSucceeded) =>
        \/ (Completions = 1 /\ Aborts = 0)
        \/ (Completions = 0 /\ Aborts = 1)

\* C2: no keep-alive TestEvent is sent by the goroutine after the main flow
\* has taken its branch and closed stopChan.
C2_NoKeepAliveAfterClose ==
    \A i, j \in DOMAIN log :
        (i < j /\ log[i].ev = "close") => ~IsKeepAlive(log[j])

\* C3: while the terminal call (completion event or abort annotation) is in
\* progress, the goroutine is not inside a TestEvent call.
C3_NoKeepAliveDuringTerminal ==
    pcMain \in {"complete_call", "abort_call"} => pcKA # "call"

\* C4: on both exit paths close(stopChan) precedes the sending of the
\* terminal call.
C4_CloseBeforeTerminal ==
    \A j \in DOMAIN log :
        IsTerminal(log[j]) => \E i \in DOMAIN log : i < j /\ log[i].ev = "close"

C4_Witness ==
    /\ pcMain = "complete_call"
    /\ IsCompletion(log[Len(log)])
    /\ log[Len(log) - 1].ev = "close"

\* C5: the exit from Running is decided once: after the select has taken the
\* timeout or the interrupt branch, a later interrupt or a later timeout sends
\* no terminal call of the other kind, no second terminal call, and does not
\* end the process.
C5_DecidedOnce ==
    /\ Completions + Aborts <= 1
    /\ pcMain \in {"complete", "complete_call"} => Aborts = 0
    /\ pcMain \in {"abort", "abort_call"} => Completions = 0
    /\ pcMain = "finish" => Completions + Aborts = 1
    /\ InterruptedAt(DecidedPcs) => pcMain # "killed"

C5_Witness ==
    /\ pcMain = "exited"
    /\ Completions = 1
    /\ Aborts = 0
    /\ Len(intrAt) = MaxInterrupts
    /\ \A k \in DOMAIN intrAt : intrAt[k] \in {"complete", "complete_call", "finish"}

\* C6: an interrupt that arrives while the Init call or the start TestEvent is
\* in flight is observed: the run ends with the abort annotation.
C6_InterruptDuringStartup ==
    (pcMain \in {"exited", "killed"} /\ InterruptedAt({"init_call", "start_call"}))
        => Aborts = 1

\* C7: an interrupt that arrives while the coordinator is Running leads to
\* exactly one abort annotation and no completion event before the run ends.
C7_InterruptWhileRunning ==
    (pcMain \in {"exited", "killed"} /\ InterruptedAt(RunningPcs))
        => (Aborts = 1 /\ Completions = 0)

\* C8: the process never exits while a keep-alive TestEvent is in progress.
C8_NoExitDuringKeepAlive ==
    pcMain = "exited" => pcKA # "aborted"

\* C9: once the terminal report has returned, no further remote call is sent.
C9_TerminatedAbsorbing ==
    \A i, j \in DOMAIN log :
        (i < j /\ IsTerminalReturn(log[i])) => ~IsCall(log[j])

\* C10: no TestEvent and no SendPerfanaEvent is sent unless Init returned
\* before it with no error and a non-empty testRunId; after a failed Init
\* nothing more is sent and Run has returned; after a failed NewClient not
\* even Init is sent.
C10_NothingWithoutInit ==
    /\ \A j \in DOMAIN log :
        (IsCall(log[j]) /\ log[j].op # "Init") =>
            \E i \in DOMAIN log :
                /\ i < j
                /\ IsInitReturn(log[i])
                /\ log[i].err = ""
                /\ log[i].testRunId # ""
    /\ \A i \in DOMAIN log :
        (IsInitReturn(log[i]) /\ (log[i].err # "" \/ log[i].testRunId = "")) =>
            (i = Len(log) /\ pcMain = "exited")
    /\ (config.baseUrl = "" \/ (config.mtlsEnabled /\ ~config.keyPairOk)) => log = <<>>

C10_Witness ==
    /\ pcMain = "exited"
    /\ Len(log) = 2
    /\ IsInitReturn(log[2])
    /\ log[2].err = "received empty testRunId in the response"

\* the start event (the main flow's TestEvent with completed=false) failed
StartFailed ==
    \E i \in DOMAIN log :
        /\ log[i].ev = "return"
        /\ log[i].op = "TestEvent"
        /\ log[i].by = "main"
        /\ ~log[i].completed
        /\ log[i].err # ""

\* C11: a failure of the start event does not end the run: when Run has
\* returned after a failed start event, a terminal event (completion or abort)
\* was still sent.
C11_StartFailureNotFatal ==
    (StartFailed /\ pcMain = "exited") => Completions + Aborts = 1

\* C12: a failed keep-alive does not end the run: the step in which a
\* keep-alive returns an error puts the goroutine back at its select and
\* leaves the main flow where it is, and a run with a failed keep-alive still
\* has exactly one terminal event when the main flow finishes.
C12_KeepAliveFailureNotFatal ==
    /\ [][(pcKA = "call" /\ pcKA' \notin {"call", "aborted"} /\ kaLastErr' # "")
            => (pcKA' = "select" /\ pcMain' = pcMain /\ log' = log)]_vars
    /\ []((kaLastErr # "" /\ pcMain = "finish") => Completions + Aborts = 1)

\* a keep-alive is in flight after an earlier one failed
C12_Witness == kaLastErr # "" /\ pcKA = "call" /\ pcMain = "select"

\* the start event returned with no error
StartSucceeded ==
    \E i \in DOMAIN log :
        /\ log[i].ev = "return"
        /\ log[i].op = "TestEvent"
        /\ log[i].by = "main"
        /\ ~log[i].completed
        /\ log[i].err = ""

\* the index of the last call sent (0 when none was sent)
LastCall ==
    LET calls == {i \in DOMAIN log : IsCall(log[i])}
    IN  IF calls = {} THEN 0 ELSE CHOOSE i \in calls : \A k \in calls : k <= i

\* C13: the remote calls of a run are ordered: Init has returned before the
\* start event is sent, the start event has returned successfully before the
\* first keep-alive is sent, the completion event is sent only after the
\* planned duration has elapsed, and a run in which Init succeeded and no
\* interrupt arrived ends with exactly one completion event as its last call.
C13_CallOrder ==
    /\ \A j \in DOMAIN log :
        (IsCall(log[j]) /\ log[j].op = "TestEvent") =>
            \E i \in DOMAIN log : i < j /\ IsInitReturn(log[i])
    /\ \A j \in DOMAIN log :
        IsKeepAlive(log[j]) =>
            \E i \in DOMAIN log :
                /\ i < j
                /\ log[i].ev = "return"
                /\ log[i].op = "TestEvent"
                /\ log[i].by = "main"
                /\ log[i].err = ""
    /\ pcMain = "complete_call" => now >= TimeoutPeriods
    /\ (pcMain = "exited" /\ InitSucceeded /\ interrupts = 0) =>
            (Completions = 1 /\ IsCompletion(log[LastCall]))

KeepAlives == Cardinality({i \in DOMAIN log : IsKeepAlive(log[i])})

\* the planned duration in minutes (runMinutes, init.go:656)
RunMinutes == rampupTimeMinutes + constantLoadTimeMinutes

\* C14: with no interrupt, a run planned for N >= 1 whole minutes sends at
\* most 2N-1 keep-alive events (at most 3 for rampUp=PT1m, constantLoad=PT1m):
\* the tick that coincides with the timeout produces no keep-alive.
C14_KeepAliveCount ==
    (interrupts = 0 /\ RunMinutes >= 1) => KeepAlives <= 2 * RunMinutes - 1

\* the select took the given branch
Took(branch) ==
    \E i \in DOMAIN log : log[i].ev = "close" /\ log[i].branch = branch

\* C15: when the interrupt is the event the select observes, the terminal
\* call is the abort annotation and no completed=true TestEvent is ever sent;
\* when the timeout is the event observed, the terminal call is the
\* completed=true TestEvent and no annotation is ever sent.
C15_TerminalMatchesBranch ==
    /\ Took("signal") =>
        /\ Completions = 0
        /\ pcMain \in {"abort_call", "finish", "exited"} => Aborts = 1
    /\ Took("timeout") =>
        /\ Aborts = 0
        /\ pcMain \in {"complete_call", "finish", "exited"} => Completions = 1

\* the interrupt won, and the planned duration elapsed before the run ended
C15_Witness ==
    /\ pcMain = "exited"
    /\ Took("signal")
    /\ Aborts = 1
    /\ timeoutFired

\* C16: every run terminates: once the start event has succeeded the main flow
\* eventually leaves (Run returns, or the process is ended by a signal), and
\* unless an interrupt arrives it does so having sent the completion event,
\* whatever the keep-alive calls returned.
C16_RunTerminates ==
    /\ (pcMain = "timers") ~> (pcMain \in {"exited", "killed"})
    /\ (pcMain = "timers") ~> (interrupts > 0 \/ (pcMain = "exited" /\ Completions = 1))

\* a run without interrupt has ended with its completion event although a
\* keep-alive failed
C16_Witness ==
    /\ pcMain = "exited"
    /\ interrupts = 0
    /\ Completions = 1
    /\ KeepAlives >= 1
    /\ kaLastErr # ""

IsTestEvent(e) == e.ev = "call" /\ e.op = "TestEvent"

\* C17: every TestEvent of the run (start event, keep-alives, completion
\* event) carries the testRunId that the run's Init call returned, and that
\* identifier is not empty.
C17_TestRunIdStable ==
    \A j \in DOMAIN log :
        IsTestEvent(log[j]) =>
            /\ log[j].testRunId # ""
            /\ \E i \in DOMAIN log :
                /\ i < j
                /\ IsInitReturn(log[i])
                /\ log[i].err = ""
                /\ log[i].testRunId = log[j].testRunId

\* the start event, a keep-alive and the completion event have been sent
C17_Witness ==
    /\ pcMain = "complete_call"
    /\ KeepAlives >= 1
    /\ \A j \in DOMAIN log : IsTestEvent(log[j]) => log[j].testRunId = "run-1"

\* C18: completed is false in the start event and in every keep-alive; it is
\* true in at most one event per run, which the main flow sends on the timeout
\* path; the goroutine never sends completed=true.
C18_CompletedFlag ==
    /\ \A j \in DOMAIN log : IsKeepAlive(log[j]) => ~log[j].completed
    /\ \A j \in DOMAIN log :
        (IsTestEvent(log[j]) /\ \A i \in 1..(j - 1) : ~IsTestEvent(log[i]))
            => (~log[j].completed /\ log[j].by = "main")
    /\ \A j \in DOMAIN log :
        (IsTestEvent(log[j]) /\ log[j].completed)
            => (log[j].by = "main" /\ Took("timeout"))
    /\ Completions <= 1

C18_Witness ==
    /\ pcMain = "finish"
    /\ Completions = 1
    /\ KeepAlives >= 2

(***************************************************************************)
(* Vocabulary of the duration claims.                                      *)
(***************************************************************************)
\* s is exactly PT<digits>m
IsMinuteForm(s) ==
    /\ Len(s) >= 4
    /\ s[1] = "P"
    /\ s[2] = "T"
    /\ s[Len(s)] = "m"
    /\ \A k \in 3..(Len(s) - 1) : IsDigit(s[k])

\* the digits of a string of that form, leading zeros dropped
Significant(s) == StripZeros(SubSeq(s, 3, Len(s) - 1))

\* the number written by ds is at most 2^63-1
FitsInt(ds) ==
    \/ Len(ds) < Len(IntMaxDigitsSeq)
    \/ (Len(ds) = Len(IntMaxDigitsSeq) /\ ~LexGreater(ds, IntMaxDigitsSeq))

C20_NoPartialParsing ==
    (parsed.done /\ ~IsMinuteForm(parseArg))
        => parsed.err = "invalid ISO 8601 duration format"

(***************************************************************************)
(* Vocabulary of the planned duration.                                     *)
(***************************************************************************)
ParseFailed(s) == ParseISODuration(s).err # ""

\* the minutes a flag contributes: 0 when it does not parse
Planned(s) == IF ParseFailed(s) THEN 0 ELSE ParseISODuration(s).minutes

PlannedMinutes == Planned(rampupTime) + Planned(constantLoadTime)

\* C21: a duration that fails to parse does not end the run: once the
\* configuration is read the run (unless a signal ends the process first)
\* goes on to NewClient, and later to its timers, with 0 minutes for each
\* flag that failed and the parsed minutes for the others, the completion
\* event is not sent before the sum of those minutes has been waited for,
\* and such a run that reaches its final message without an interrupt has
\* sent Init, the start event and one completion event.
C21_ParseFailureNotFatal ==
    /\ [][(pcMain = "load" /\ config.readable /\ pcMain' \notin {"load", "killed"})
            => /\ pcMain' = "newclient"
               /\ rampupTimeMinutes' = Planned(rampupTime)
               /\ constantLoadTimeMinutes' = Planned(constantLoadTime)]_vars
    /\ [](pcMain \in {"newclient", "timers"}
            => rampupTimeMinutes + constantLoadTimeMinutes = PlannedMinutes)
    /\ [](pcMain = "complete_call" => now >= SessionPeriods(PlannedMinutes))
    /\ []((pcMain = "finish" /\ interrupts = 0
              /\ (ParseFailed(rampupTime) \/ ParseFailed(constantLoadTime)))
            => (InitSucceeded /\ StartSucceeded /\ Completions = 1))

\* rampUp "PT5h" with constantLoad "PT1m": a run of one minute has completed
C21_Witness ==
    /\ pcMain = "exited"
    /\ ParseFailed(rampupTime)
    /\ ~ParseFailed(constantLoadTime)
    /\ PlannedMinutes = 1
    /\ now >= MinutePeriods
    /\ Completions = 1

\* the decimal string ds is minutes*60
IsSecondsOf(ds, minutes) ==
    IF minutes = 0 THEN ds = <<"0">>
    ELSE /\ Len(ds) >= 2
         /\ ds[Len(ds)] = "0"
         /\ DecimalValue(SubSeq(ds, 1, Len(ds) - 1), 0) = minutes * MinutePeriods

\* testTimeout fires when r + c minutes have passed since the timers were
\* created, not before and not later
WaitIsSum ==
    TimersCreated =>
        LET due == (rampupTimeMinutes + constantLoadTimeMinutes) * MinutePeriods
        IN  /\ (timeoutFired \/ Took("timeout")) => now >= due
            /\ now >= due => (timeoutFired \/ Took("timeout"))

\* every run event reports rampUp = r*60 and duration = c*60
MetadataInSeconds ==
    \A j \in DOMAIN log :
        IsTestEvent(log[j]) =>
            /\ IsSecondsOf(log[j].req.body.rampUp, rampupTimeMinutes)
            /\ IsSecondsOf(log[j].req.body.duration, constantLoadTimeMinutes)

\* a keep-alive is sent for a tick, and the ticks are KeepAliveSeconds apart
\* whatever r and c are
KeepAliveEvery30s ==
    TimersCreated => KeepAlives * KeepAliveSeconds <= now * CallTimeoutSeconds

\* C22: for parsed ramp-up r and constant-load c minutes the wait before the
\* timeout is exactly r + c minutes, every run event reports rampUp = r*60
\* and duration = c*60 seconds, and the keep-alive interval is 30 s whatever
\* r and c are.
C22_WaitAndMetadata ==
    /\ WaitIsSum
    /\ MetadataInSeconds
    /\ KeepAliveEvery30s

(***************************************************************************)
(* Vocabulary of the client claims.                                        *)
(***************************************************************************)
Returned(op) == clientReturn.done /\ clientCall.op = op

\* the service answered, with a 2xx status
Is2xx(resp) == ~resp.transport /\ resp.status >= 200 /\ resp.status <= 299

\* C23: NewClient fails exactly when baseUrl is empty, or mTLS is enabled and
\* the certificate/key pair cannot be loaded; with mTLS disabled the pair is
\* never looked at; a failed construction returns no client and a successful
\* one returns a client.
C23_NewClientFailsIff ==
    Returned("NewClient") =>
        LET cfg == clientCall.cfg
        IN  /\ clientReturn.err # ""
                <=> (cfg.baseUrl = "" \/ (cfg.mtlsEnabled /\ ~cfg.keyPairOk))
            /\ clientReturn.err # "" <=> clientReturn.value = "nil"

\* mTLS disabled and a pair that does not load: the client is constructed
C23_Witness ==
    /\ Returned("NewClient")
    /\ clientCall.cfg.baseUrl # ""
    /\ ~clientCall.cfg.mtlsEnabled
    /\ ~clientCall.cfg.keyPairOk
    /\ clientReturn.err = ""
    /\ clientReturn.value = "plain"

\* C24: Init returns a non-empty testRunId and no error on a 2xx response
\* whose body holds one, fails with the empty-run-id error on a 2xx response
\* whose testRunId is empty or absent, and never returns an empty identifier
\* with no error.
C24_InitRunId ==
    Returned("Init") =>
        LET resp == clientCall.resp
        IN  /\ (Is2xx(resp) /\ resp.body = "run-1")
                => (clientReturn.err = "" /\ clientReturn.value = "run-1")
            /\ (Is2xx(resp) /\ resp.body \in {"noid", "emptyid"})
                => clientReturn.err = "received empty testRunId in the response"
            /\ clientReturn.err = "" => clientReturn.value # ""

\* a 200 response without testRunId has been refused
C24_Witness ==
    /\ Returned("Init")
    /\ clientCall.resp.status = 200
    /\ clientCall.resp.body = "noid"
    /\ clientReturn.err = "received empty testRunId in the response"
    /\ clientReturn.value = ""

\* C25: Init and TestEvent fail with the remote error for every status that
\* is not 2xx, and succeed only for 2xx responses.
C25_Non2xxFails ==
    ((Returned("Init") \/ Returned("TestEvent")) /\ ~clientCall.resp.transport)
        => /\ ~Is2xx(clientCall.resp) => clientReturn.err = "HTTP error"
           /\ clientReturn.err = "" => Is2xx(clientCall.resp)

\* C26: SendPerfanaEvent returns the confirmation message and no error
\* exactly when the status is 200; for every other status it returns the
\* response body and an error; for a transport failure it returns the empty
\* string and an error.
C26_SendPerfanaEventStatus ==
    Returned("SendPerfanaEvent") =>
        LET resp == clientCall.resp
        IN  /\ clientReturn.err = "" <=> (~resp.transport /\ resp.status = 200)
            /\ clientReturn.err = "" => clientReturn.value = "Event sent successfully."
            /\ (~resp.transport /\ resp.status # 200)
                => (clientReturn.value = resp.body /\ clientReturn.err # "")
            /\ resp.transport => (clientReturn.value = "" /\ clientReturn.err # "")

\* a 204 response has been returned as a failure, with its body
C26_Witness ==
    /\ Returned("SendPerfanaEvent")
    /\ clientCall.resp.status = 204
    /\ clientReturn.value = clientCall.resp.body
    /\ clientReturn.err = "non-200 response received"

\* the calls of the main flow of one kind in the history
MainCalls(op, completed) ==
    Cardinality({i \in DOMAIN log :
        /\ log[i].ev = "call"
        /\ log[i].by = "main"
        /\ log[i].op = op
        /\ log[i].completed = completed})

MainReturns(op, completed) ==
    Cardinality({i \in DOMAIN log :
        /\ log[i].ev = "return"
        /\ log[i].by = "main"
        /\ log[i].op = op
        /\ log[i].completed = completed})

\* C27: no remote call is retried: over a run the main flow sends at most
\* one Init request, one start event, one completion event and one abort
\* annotation, each returns at most once, and after one of them has failed
\* the main flow does not send it again.
C27_NoRetry ==
    /\ \A op \in {"Init", "TestEvent", "SendPerfanaEvent"}, c \in BOOLEAN :
        /\ MainCalls(op, c) <= 1
        /\ MainReturns(op, c) <= MainCalls(op, c)
    /\ \A j \in DOMAIN log :
        (log[j].ev = "call" /\ log[j].by = "main") =>
            \A i \in 1..(j - 1) :
                (log[i].ev = "return" /\ log[i].by = "main" /\ log[i].err # "")
                    => (log[j].op # log[i].op \/ log[j].completed # log[i].completed)

\* the completion event failed and the run ended with that one attempt
C27_Witness ==
    /\ pcMain = "finish"
    /\ \E i \in DOMAIN log :
        /\ log[i].ev = "return"
        /\ log[i].op = "TestEvent"
        /\ log[i].completed
        /\ log[i].err # ""
    /\ MainCalls("TestEvent", TRUE) = 1

(***************************************************************************)
(* Vocabulary of the request claims.                                       *)
(***************************************************************************)
\* the path each operation posts to
PathOf(op) ==
    CASE op = "Init" -> "/api/init"
      [] op = "TestEvent" -> "/api/test"
      [] op = "SendPerfanaEvent" -> "/api/events"

OpsSent == {log[i].op : i \in {k \in DOMAIN log : IsCall(log[k])}}

\* C28: every request of Init (to /api/init), TestEvent (to /api/test) and
\* SendPerfanaEvent (to /api/events) carries Authorization: Bearer <apiKey>
\* with the configured API key and Content-Type: application/json.
C28_RequestHeaders ==
    \A j \in DOMAIN log :
        IsCall(log[j]) =>
            /\ log[j].req.url = <<config.baseUrl, PathOf(log[j].op)>>
            /\ log[j].req.Authorization = <<"Bearer ", config.apiKey>>
            /\ log[j].req.ContentType = "application/json"

\* the three operations have each sent a request
C28_Witness == OpsSent = {"Init", "TestEvent", "SendPerfanaEvent"}

\* C29: the abort annotation has the title "Test aborted", the description
\* "Manually aborted", the tags aborted and manual, and systemUnderTest and
\* testEnvironment of the configuration; nothing of it comes from the
\* testRunId or from the flags of the run.
C29_AbortPayload ==
    \A j \in DOMAIN log :
        IsAbort(log[j]) =>
            log[j].req.body =
                [systemUnderTest |-> config.systemUnderTest,
                 testEnvironment |-> config.environment,
                 title |-> "Test aborted",
                 description |-> "Manually aborted",
                 tags |-> <<"aborted", "manual">>]

\* the abort annotation has been sent and has returned
C29_Witness == pcMain = "finish" /\ Aborts = 1

\* what a run event's request is apart from its completed flag
SameButCompleted(req) == [req EXCEPT !.body.completed = FALSE]

\* the first run event of the history is its event number j
IsFirstTestEvent(j) ==
    IsTestEvent(log[j]) /\ \A k \in 1..(j - 1) : ~IsTestEvent(log[k])

\* C30: the run events of a run differ only in the completed flag: they
\* carry the labels of the Init request and the metadata built before the
\* start event, and no step changes the configuration or, once it is built,
\* the metadata.
C30_RunEventsAlike ==
    /\ [](\A i \in DOMAIN log :
            IsFirstTestEvent(i) =>
                \A j \in DOMAIN log :
                    IsTestEvent(log[j])
                        => SameButCompleted(log[j].req) = SameButCompleted(log[i].req))
    /\ [](\A i \in DOMAIN log :
            (IsCall(log[i]) /\ log[i].op = "Init") =>
                \A j \in DOMAIN log :
                    IsTestEvent(log[j])
                        => /\ log[j].req.body.systemUnderTest = log[i].req.body.systemUnderTest
                           /\ log[j].req.body.testEnvironment = log[i].req.body.testEnvironment
                           /\ log[j].req.body.workload = log[i].req.body.workload)
    /\ [](\A j \in DOMAIN log :
            IsTestEvent(log[j]) =>
                LET b == log[j].req.body
                IN  /\ b.version = version
                    /\ b.CIBuildResultsUrl = buildResultsUrl
                    /\ IsSecondsOf(b.rampUp, rampupTimeMinutes)
                    /\ IsSecondsOf(b.duration, constantLoadTimeMinutes)
                    /\ b.annotations = annotation
                    /\ b.tags = tags
                    /\ b.variables = variables
                    /\ b.deepLinks = deepLinks)
    /\ [][/\ config' = config
          /\ additionalData # NoData => additionalData' = additionalData]_vars

\* the start event, two keep-alives and the completion event have been sent
C30_Witness ==
    /\ pcMain = "finish"
    /\ KeepAlives >= 2
    /\ Completions = 1
    /\ additionalData # NoData

\* the remote calls that have been sent and have not returned
CallsInFlight ==
    (IF pcMain \in {"init_call", "start_call", "complete_call", "abort_call"}
     THEN 1 ELSE 0)
        + (IF pcKA = "call" THEN 1 ELSE 0)

\* C33: keep-alive calls never overlap: a keep-alive is sent only by the
\* goroutine waiting at its select, that is after its previous keep-alive has
\* returned, one at a time; at most two remote calls are in flight at once,
\* and then they are one keep-alive and the terminal call.
C33_KeepAlivesDoNotOverlap ==
    /\ [][(Len(log') > Len(log) /\ IsKeepAlive(log'[Len(log')]))
            => /\ pcKA = "select"
               /\ pcKA' = "call"
               /\ Len(log') = Len(log) + 1]_vars
    /\ [](CallsInFlight <= 2)
    /\ []((pcKA = "call" /\ CallsInFlight = 2)
            => pcMain \in {"complete_call", "abort_call"})

\* the second keep-alive and the completion event are in flight together
C33_Witness ==
    /\ pcKA = "call"
    /\ pcMain = "complete_call"
    /\ KeepAlives = 2

\* both path flags are given and both files are read
InitBothRead ==
    /\ initRun.flags.clientCertPath # ""
    /\ initRun.flags.clientKeyPath # ""
    /\ ReadFile(initRun.flags.clientCertPath).err = ""
    /\ ReadFile(initRun.flags.clientKeyPath).err = ""

\* exactly one path flag is given, or a given file cannot be read
InitPairFault ==
    \/ (initRun.flags.clientCertPath = "") # (initRun.flags.clientKeyPath = "")
    \/ /\ initRun.flags.clientCertPath # ""
       /\ ReadFile(initRun.flags.clientCertPath).err # ""
    \/ /\ initRun.flags.clientKeyPath # ""
       /\ ReadFile(initRun.flags.clientKeyPath).err # ""

\* the init command has ended with the message msg
InitEndedWith(msg) ==
    /\ initRun.pc = "done"
    /\ initRun.out # <<>>
    /\ initRun.out[Len(initRun.out)] = msg

\* C31: the configuration the init command has written has mTLS enabled
\* exactly when both path flags were given and both files were read; when
\* exactly one path flag is given, or a given file cannot be read, the
\* command ends with an error of the certificate, the key or the pair (or
\* of the directory, before it looked at them) and no step of it changes
\* perfana.yaml.
C31_MtlsOnlyWithBothFiles ==
    /\ [](InitEndedWith("Configuration initialized successfully")
            => /\ dotPerfana.yaml # <<>>
               /\ dotPerfana.yaml[1].mtls.enabled <=> InitBothRead)
    /\ []((initRun.pc = "done" /\ InitPairFault)
            => \/ InitEndedWith("Error reading certificate file")
               \/ InitEndedWith("Error reading private key file")
               \/ InitEndedWith("Both client certificate and private key must be provided for mTLS")
               \/ InitEndedWith("Error finding home directory")
               \/ InitEndedWith("Error creating .perfana-cli directory"))
    /\ [][InitPairFault => dotPerfana'.yaml = dotPerfana.yaml]_vars

\* a certificate alone was given and read: the command has ended on the
\* error of the pair, with the perfana.yaml that was there still in place
C31_Witness ==
    /\ InitEndedWith("Both client certificate and private key must be provided for mTLS")
    /\ initRun.flags.clientCertPath = "client.crt"
    /\ initRun.flags.clientKeyPath = ""
    /\ initRun.certPresent
    /\ dotPerfana.yaml = <<OldYaml>>

\* the entries of the flag that have the separator, and those that lack it
HasSeparator(e) == \E i \in 1..Len(e) : e[i] = SeparatorOf(flagArg.flag)
WellFormedEntries == SelectSeq(flagArg.entries, HasSeparator)
LacksSeparator(e) == ~HasSeparator(e)
MalformedEntries == SelectSeq(flagArg.entries, LacksSeparator)

\* what was parsed, as pairs of a name and a value (or URL)
ParsedPairs ==
    IF flagArg.flag = "variable"
    THEN [i \in 1..Len(flagParsed.variables) |->
            <<flagParsed.variables[i].placeholder, flagParsed.variables[i].value>>]
    ELSE [i \in 1..Len(flagParsed.deepLinks) |->
            <<flagParsed.deepLinks[i].name, flagParsed.deepLinks[i].url>>]

\* the entries that were reported as invalid
ReportedEntries == [i \in 1..Len(flagParsed.out) |-> flagParsed.out[i][2]]

\* t is s without the white space at its two ends
IsTrimOf(t, s) ==
    /\ \E a, b \in 0..Len(s) :
        /\ a + b <= Len(s)
        /\ t = SubSeq(s, a + 1, Len(s) - b)
        /\ \A i \in 1..a : IsSpace(s[i])
        /\ \A i \in (Len(s) - b + 1)..Len(s) : IsSpace(s[i])
    /\ t # <<>> => ~IsSpace(t[1]) /\ ~IsSpace(t[Len(t)])

\* pair is entry e cut at its first separator, each part as it was given
IsCutOf(pair, e) ==
    /\ pair[1] \o <<SeparatorOf(flagArg.flag)>> \o pair[2] = e
    /\ \A i \in 1..Len(pair[1]) : pair[1][i] # SeparatorOf(flagArg.flag)

\* pair is entry e cut at its first separator, each part without the white
\* space at its ends
IsTrimmedCutOf(pair, e) ==
    \E p \in 1..Len(e) :
        /\ e[p] = SeparatorOf(flagArg.flag)
        /\ \A i \in 1..(p - 1) : e[i] # SeparatorOf(flagArg.flag)
        /\ IsTrimOf(pair[1], SubSeq(e, 1, p - 1))
        /\ IsTrimOf(pair[2], SubSeq(e, p + 1, Len(e)))

====
